---- MODULE Spec2Model ----
(***************************************************************************)
(* A model of the indexing-and-retrieval engine of the SEC filings QA      *)
(* agent: the document chunker (document_chunker.py), the embedding        *)
(* generator (embeddings.py), the vector store (vector_db.py) and the      *)
(* query router (query_router.py over retrieval.py), and the system        *)
(* object that ties them together (main.py).                               *)
(*                                                                         *)
(* Eight specifications share the module:                                  *)
(*   SpecChunkLoop  the while loop of DocumentChunker._create_chunks, one  *)
(*                  step per iteration;                                    *)
(*   SpecChunker    whole runs of _create_chunks on a document, with the   *)
(*                  wall clock the chunk metadata reads;                   *)
(*   Spec           the vector store: add_chunks, search, persistence and  *)
(*                  construction from the snapshot on disk.                *)
(*   SpecConcurrentFit  two threads in the fallback embedder's fit path;   *)
(*   SpecRouter     QueryRouter.route_query: classification, sub-searches  *)
(*                  and truncation, by result counts;                      *)
(*   SpecBatch      DocumentChunker.chunk_multiple_files, one file per     *)
(*                  step;                                                  *)
(*   SpecSystem     SECFilingsQA: construction, setup_system and query;    *)
(*   SpecRetrieval  the retrieval policies run against the records of the  *)
(*                  router's VectorDB, with the result lists themselves.   *)
(***************************************************************************)
EXTENDS Integers, Sequences, FiniteSets, TLC

VARIABLES
    \* ---- DocumentChunker
    chunk_size,      \* self.chunk_size
    overlap,         \* self.overlap
    doc,             \* the file being chunked: [filename, text]
    pc,              \* position of _create_chunks: "start", "loop", "done"
    start_idx,       \* start_idx of the loop
    chunk_counter,   \* chunk_counter of the loop
    iterations,      \* number of loop iterations entered (history)
    prev_start,      \* start_idx at the previous iteration (history)
    chunks,          \* the chunk list the last run returned
    first_chunks,    \* the chunk list the run before it returned (history)
    runs,            \* number of completed runs on doc (history)
    clock,           \* the wall clock datetime.now() reads
    hash_seed,       \* the process's string hash seed (orders set iteration)
    \* ---- VectorDB and its EmbeddingGenerator
    chunks_data,     \* self.chunks_data
    metadata_index,  \* self.metadata_index
    use_fallback,    \* embedding_generator.use_fallback
    svd_strict,      \* TruncatedSVD.fit rejects n_components > n_features
    is_fitted,       \* embedding_generator.is_fitted
    vocab,           \* vocabulary the fallback vectorizer was fit on
    disk,            \* the snapshot file <collection_name>.pkl
    op,              \* the last operation performed (history)
    ioResult,        \* how the snapshot read or write of op ended (history)
    raised,          \* whether op raised an exception (history)
    results,         \* what the last operation returned
    query,           \* the arguments of the last operation (history)
    embed_call,      \* the EmbeddingGenerator call op made (history)
    \* ---- threads that call into one fallback EmbeddingGenerator
    thread_pc,       \* position of each thread in its call
    thread_texts,    \* the texts each thread passed to its call
    tfidf_fits,      \* number of tfidf.fit_transform calls begun (history)
    svd_fits,        \* number of svd.fit calls begun (history)
    \* ---- QueryRouter.route_query
    entities,        \* what EntityExtractor.extract_all_entities returned
    query_type,      \* what _determine_query_type returned
    router_pc,       \* position of route_query: "idle", "retrieve", "done"
    pending,         \* the sub-searches the retrieval has still to make
    all_results,     \* number of results gathered so far
    search_calls,    \* number of VectorDB.search calls made (history)
    route_raised,    \* whether the retrieval raised an exception (history)
    relevant_docs,   \* length of the list the retrieval returned
    sub_results,     \* the list each sub-search handed back (history)
    documents,       \* the list the retrieval returned
    \* ---- DocumentChunker.chunk_multiple_files
    filepaths,       \* the files the call was given
    file_i,          \* the loop index i
    all_chunks,      \* all_chunks
    processed_count, \* processed_count
    skipped_count,   \* skipped_count
    error_count,     \* error_count
    batch_pc,        \* position of the call: "idle", "loop", "done"
    interrupted,     \* whether KeyboardInterrupt ended the loop (history)
    \* ---- SECFilingsQA
    system_ready,    \* self.system_ready
    sys_pc,          \* position of setup_system: "new", "processed",
                     \* "ready", "failed"
    self_chunks,     \* self.chunks
    router_data,     \* query_router.retrieval_engine.vector_db.chunks_data
    router_calls,    \* number of query_router.route_query calls (history)
    synth_calls,     \* number of synthesize_answer calls (history)
    answer           \* what the last query(question) returned

chunkerVars == <<chunk_size, overlap, doc, pc, start_idx, chunk_counter,
                 iterations, prev_start, chunks, first_chunks, runs, hash_seed>>
envVars == <<use_fallback, svd_strict>>
storeVars == <<chunks_data, metadata_index, envVars, is_fitted, vocab,
               disk, op, ioResult, raised, results, query, embed_call>>
threadVars == <<thread_pc, thread_texts, tfidf_fits, svd_fits>>
routerVars == <<entities, query_type, router_pc, pending, all_results,
                search_calls, route_raised, relevant_docs, sub_results,
                documents>>
batchVars == <<filepaths, file_i, all_chunks, processed_count,
               skipped_count, error_count, batch_pc, interrupted>>
systemVars == <<system_ready, sys_pc, self_chunks, router_data, router_calls,
                synth_calls, answer>>
auxVars == <<threadVars, routerVars, batchVars, systemVars>>
vars == <<chunkerVars, clock, storeVars, auxVars>>

(***************************************************************************)
(* Bounds of the model                                                     *)
(***************************************************************************)
MaxChunkSize == 3
MaxOverlap == 4
MaxWords == 103
MaxClock == 2
MaxRecords == 3
MaxResults == 2
MaxFits == 3

(***************************************************************************)
(* Program constants                                                       *)
(***************************************************************************)
CHUNK_SIZE == 1000
CHUNK_OVERLAP == 200
MinWords == 100
MinChunkChars == 50
XbrlMaxWords == 1000
XbrlMinIndicators == 3

Min(a, b) == IF a < b THEN a ELSE b
Max(a, b) == IF a > b THEN a ELSE b

\* dict.get(key, default)
Get(m, k, default) == IF k \in DOMAIN m THEN m[k] ELSE default

(***************************************************************************)
(* Documents.  A text is described by what the chunker reads of it: the    *)
(* number of whitespace-separated words, the length of each word, how many *)
(* viewer-page indicators occur in it, which filing-indicator phrases      *)
(* occur in it, and the content types its passages match.  A file name is  *)
(* the sequence of its '_'-separated parts (without ".html").              *)
(***************************************************************************)
filing_indicators ==
    [x \in {"10-K", "5"} |->
        IF x = "10-K"
        THEN {"annual report", "business overview", "risk factors",
              "management discussion", "financial statements",
              "consolidated statements", "item 1", "item 2", "item 3",
              "part i", "part ii"}
        ELSE {"annual statement", "securities beneficially owned"}]

default_indicators == {"sec filing", "securities", "company"}

\* Phrase sets are closed under substring ("part ii" brings "part i",
\* "securities beneficially owned" brings "securities").
PhraseSets ==
    { {},
      {"item 1", "item 2", "part i"},
      {"annual report", "risk factors", "item 1", "part i", "part ii"},
      {"securities beneficially owned", "securities"},
      {"company"} }

ContentTypeLists ==
    { <<>>, <<"risk_factors", "financial_statements">>, <<"governance">> }

FileNames ==
    { <<"AAPL", "10-K", "20230101">>,
      <<"AAPL", "5", "20230101", "amended">>,
      <<"notes">> }

TextsOf(wordCounts, wordLens, contentTypes) ==
    [nWords : wordCounts, wordLen : wordLens, xbrl : {0, XbrlMinIndicators},
     phrases : PhraseSets, content_types : contentTypes]

\* len(text.split())
WordCount(text) == text.nWords

\* len(' '.join(words[s:e]).strip())
ChunkTextLen(text, s, e) ==
    IF e > s THEN (e - s) * text.wordLen + (e - s - 1) ELSE 0

(***************************************************************************)
(* DocumentChunker: file metadata and content validation                   *)
(***************************************************************************)
_extract_file_metadata(filename) ==
    IF Len(filename) >= 3
    THEN [ticker |-> filename[1], filing_type |-> filename[2],
          filing_date |-> filename[3]]
    ELSE <<>>

\* base_metadata of chunk_file
BaseMetadata(d) ==
    _extract_file_metadata(d.filename) @@ [source_file |-> d.filename]

\* found_indicators and len(expected_indicators) of
\* _calculate_filing_content_score; the score is their quotient
ExpectedIndicators(filing_type) ==
    IF filing_type \in DOMAIN filing_indicators
    THEN filing_indicators[filing_type]
    ELSE default_indicators

FoundIndicators(text, filing_type) ==
    Cardinality(ExpectedIndicators(filing_type) \cap text.phrases)

\* filing_content_score < 0.3, on the quotient found / expected
LowFilingContentScore(text, filing_type) ==
    10 * FoundIndicators(text, filing_type)
        < 3 * Cardinality(ExpectedIndicators(filing_type))

_validate_filing_content(text, metadata) ==
    LET word_count == WordCount(text)
        filing_type == Get(metadata, "filing_type", "")
    IN  IF text.xbrl >= XbrlMinIndicators /\ word_count < XbrlMaxWords
        THEN [is_valid |-> FALSE, reason |-> "XBRL viewer page detected"]
        ELSE IF word_count < MinWords
        THEN [is_valid |-> FALSE, reason |-> "Content too short"]
        ELSE IF LowFilingContentScore(text, filing_type)
        THEN [is_valid |-> FALSE, reason |-> "Low filing content score"]
        ELSE [is_valid |-> TRUE, reason |-> "Content validation passed"]

(***************************************************************************)
(* DocumentChunker: the window loop                                        *)
(***************************************************************************)
\* end_idx = min(start_idx + self.chunk_size, len(words))
ChunkEnd(start, size, text) == Min(start + size, WordCount(text))

\* The forced advance is dropped: next start = end - overlap always.
NextStartNoForce(start, end, size, ov) == end - ov

\* next_start = end_idx - self.overlap, forced forward when it would not
\* move past start_idx
NextStart(start, end, size, ov) ==
    LET next_start == end - ov
    IN  IF next_start <= start
        THEN start + Max(1, size \div 2)
        ELSE next_start

\* The guards of _create_chunks before the loop: empty text, validation,
\* fewer than 100 words.
EntersLoop(text, base_metadata) ==
    /\ WordCount(text) > 0
    /\ _validate_filing_content(text, base_metadata).is_valid
    /\ WordCount(text) >= MinWords

(***************************************************************************)
(* DocumentChunker: chunk ids and chunk metadata                           *)
(***************************************************************************)
Range(f) == {f[x] : x \in DOMAIN f}

\* A chunk id built from the wall clock as well.
_generate_chunk_id_Timestamped(metadata, chunk_index) ==
    <<Get(metadata, "ticker", "UNK"), Get(metadata, "filing_type", "UNK"),
      Get(metadata, "filing_date", "UNK"), chunk_index, clock>>

\* f"{ticker}_{filing_type}_{filing_date}_{chunk_index:04d}", as the tuple
\* of the four values it formats
_generate_chunk_id(metadata, chunk_index) ==
    <<Get(metadata, "ticker", "UNK"), Get(metadata, "filing_type", "UNK"),
      Get(metadata, "filing_date", "UNK"), chunk_index>>

_classify_section_type(content_types, filing_type) ==
    LET has(t) == t \in Range(content_types)
    IN  IF has("executive_compensation") THEN "compensation"
        ELSE IF has("risk_factors") THEN "risk"
        ELSE IF has("management_discussion") THEN "management_analysis"
        ELSE IF has("financial_statements") THEN "financial"
        ELSE IF has("governance") THEN "governance"
        ELSE IF has("business_overview") THEN "business"
        ELSE IF filing_type = "DEF 14A" THEN "governance"
        ELSE IF filing_type \in {"10-K", "10-Q"} THEN "financial"
        ELSE IF filing_type = "8-K" THEN "events"
        ELSE "general"

\* datetime.now().isoformat()
_get_current_timestamp(now) == now

_create_source_attribution(base_metadata, chunk_index, now) ==
    [company_ticker |-> Get(base_metadata, "ticker", "Unknown"),
     filing_type |-> Get(base_metadata, "filing_type", "Unknown"),
     filing_date |-> Get(base_metadata, "filing_date", "Unknown"),
     source_file |-> Get(base_metadata, "source_file", <<"Unknown">>),
     chunk_position |-> chunk_index,
     extraction_timestamp |-> _get_current_timestamp(now)]

\* list(set(keywords)): the order a set of strings iterates in is fixed by
\* the process's hash seed.  Seed 0 lists by KeywordRank, seed 1 in reverse.
KeywordRank ==
    [k \in {"risk_factors", "financial_statements", "governance"} |->
        IF k = "risk_factors" THEN 1
        ELSE IF k = "financial_statements" THEN 2 ELSE 3]

RECURSIVE ListOfSet(_, _)
ListOfSet(S, seed) ==
    IF S = {} THEN <<>>
    ELSE LET first == CHOOSE k \in S : \A j \in S :
                          IF seed = 0 THEN KeywordRank[k] <= KeywordRank[j]
                                      ELSE KeywordRank[k] >= KeywordRank[j]
         IN  <<first>> \o ListOfSet(S \ {first}, seed)

_extract_keywords(content_types, seed) ==
    ListOfSet(Range(content_types), seed)

\* The fields of the enriched metadata that are computed from the chunk
\* text alone (financial_metrics, content_quality_score,
\* financial_concepts) are functions of the window and are left out.
_enrich_chunk_metadata(text, base_metadata, chunk_index, s, e, word_count, now, seed) ==
    [chunk_index |-> chunk_index,
     start_word_position |-> s,
     end_word_position |-> e,
     chunk_word_count |-> word_count,
     financial_content_types |-> text.content_types,
     primary_content_type |->
        IF Len(text.content_types) > 0 THEN text.content_types[1]
                                       ELSE "general",
     section_type |->
        _classify_section_type(text.content_types,
                               Get(base_metadata, "filing_type", "")),
     source_attribution |->
        _create_source_attribution(base_metadata, chunk_index, now),
     keywords |-> _extract_keywords(text.content_types, seed)]
    @@ base_metadata

\* The chunk one iteration appends.  The content is the window
\* words[s:e] of the text.
MakeChunk(text, base_metadata, counter, s, e, now, seed) ==
    [content |-> [from |-> s, to |-> e],
     metadata |-> _enrich_chunk_metadata(text, base_metadata, counter, s, e,
                                         e - s, now, seed),
     chunk_id |-> _generate_chunk_id(base_metadata, counter),
     start_position |-> s,
     end_position |-> e]

\* The while loop of _create_chunks from start_idx = s, chunk_counter = c.
RECURSIVE ChunkLoop(_, _, _, _, _, _, _, _)
ChunkLoop(text, base_metadata, size, ov, s, c, now, seed) ==
    IF s >= WordCount(text) THEN <<>>
    ELSE LET e == ChunkEnd(s, size, text)
         IN  IF ChunkTextLen(text, s, e) < MinChunkChars THEN <<>>
             ELSE <<MakeChunk(text, base_metadata, c, s, e, now, seed)>>
                  \o ChunkLoop(text, base_metadata, size, ov,
                               NextStart(s, e, size, ov), c + 1, now, seed)

\* _create_chunks with the validation verdict ignored.
_create_chunks_Unvalidated(text, base_metadata, size, ov, now, seed) ==
    IF WordCount(text) >= MinWords
    THEN ChunkLoop(text, base_metadata, size, ov, 0, 0, now, seed)
    ELSE <<>>

_create_chunks(text, base_metadata, size, ov, now, seed) ==
    IF EntersLoop(text, base_metadata)
    THEN ChunkLoop(text, base_metadata, size, ov, 0, 0, now, seed)
    ELSE <<>>

(***************************************************************************)
(* Texts of the store.  The content of a stored chunk and a query are      *)
(* sequences of whitespace-separated tokens.                               *)
(***************************************************************************)
\* str.lower() on a token
Lower(w) == IF w = "Apple" THEN "apple" ELSE w

\* len(word)
TokenLen(w) == IF w = "ai" THEN 2 ELSE IF w = "the" THEN 3 ELSE 5

\* word in token, for two lower-case tokens: equal, or a proper substring
IsSubstring(word, token) ==
    word = token \/ (word = "revenue" /\ token = "revenues")

LowerTokens(text) == {Lower(text[i]) : i \in 1 .. Len(text)}

(***************************************************************************)
(* EmbeddingGenerator.  Vectors are pairs of integers; the two text        *)
(* encoders are libraries, and a fixed map from token sets to vectors of   *)
(* length 5 (or the zero vector) stands for each of them.                  *)
(***************************************************************************)
ZeroVector == <<0, 0>>

\* TruncatedSVD(n_components=384): the length of the vectors
n_components == Len(ZeroVector)

TopicVector(tokens) ==
    IF {"apple", "revenue"} \subseteq tokens THEN <<5, 0>>
    ELSE IF "revenue" \in tokens THEN <<3, 4>>
    ELSE IF "revenues" \in tokens THEN <<4, 3>>
    ELSE IF "debt" \in tokens THEN <<-4, 3>>
    ELSE IF "apple" \in tokens THEN <<0, 5>>
    ELSE ZeroVector

\* self.model.encode(texts): the pretrained sentence encoder
Encode(text) ==
    IF TopicVector(LowerTokens(text)) = ZeroVector
    THEN <<0, -5>>
    ELSE TopicVector(LowerTokens(text))

financial_stop_words ==
    {"the", "and", "or", "but", "in", "on", "at", "to", "for", "of", "with",
     "by"}

\* _preprocess_financial_text: lower-case, drop the words shorter than 2
\* (every word of important_short has 2 letters or more)
_preprocess_financial_text(text) ==
    {w \in LowerTokens(text) : TokenLen(w) >= 2}

\* The vocabulary TfidfVectorizer.fit_transform learns from a batch.
FitVocabulary(texts) ==
    UNION {_preprocess_financial_text(texts[i]) : i \in 1 .. Len(texts)}
        \ financial_stop_words

\* tfidf.transform then svd.transform then normalisation: a text with no
\* term of the fitted vocabulary maps to the zero vector.
FallbackVector(text, vocabulary) ==
    TopicVector(_preprocess_financial_text(text) \cap vocabulary)

\* The pipeline is fit on every batch, fitted or not.
_generate_fallback_embeddings_AlwaysFits(texts, fitted, vocabulary, strict) ==
    IF FitVocabulary(texts) = {}
    THEN [raised |-> TRUE, is_fitted |-> FALSE, vocab |-> vocabulary,
          embeddings |-> <<>>]
    ELSE [raised |-> FALSE, is_fitted |-> TRUE,
          vocab |-> FitVocabulary(texts),
          embeddings |-> [i \in 1 .. Len(texts) |->
                             FallbackVector(texts[i], FitVocabulary(texts))]]

\* _generate_fallback_embeddings(texts) on the embedder state
\* [is_fitted, vocab]; vocab is the vocabulary of the fitted pipeline and
\* is read only while is_fitted holds.  fit_transform raises on an empty
\* vocabulary, and under a scikit-learn that checks it (strict) svd.fit
\* raises when the batch has fewer features than n_components; is_fitted
\* is then not set and the next call fits again.
_generate_fallback_embeddings(texts, fitted, vocabulary, strict) ==
    IF fitted
    THEN [raised |-> FALSE, is_fitted |-> TRUE, vocab |-> vocabulary,
          embeddings |-> [i \in 1 .. Len(texts) |->
                             FallbackVector(texts[i], vocabulary)]]
    ELSE IF FitVocabulary(texts) = {}
    THEN [raised |-> TRUE, is_fitted |-> FALSE, vocab |-> vocabulary,
          embeddings |-> <<>>]
    ELSE IF strict /\ Cardinality(FitVocabulary(texts)) < n_components
    THEN [raised |-> TRUE, is_fitted |-> FALSE, vocab |-> vocabulary,
          embeddings |-> <<>>]
    ELSE [raised |-> FALSE, is_fitted |-> TRUE,
          vocab |-> FitVocabulary(texts),
          embeddings |-> [i \in 1 .. Len(texts) |->
                             FallbackVector(texts[i], FitVocabulary(texts))]]

generate_embeddings(texts, fallback, fitted, vocabulary, strict) ==
    IF texts = <<>>
    THEN [raised |-> FALSE, is_fitted |-> fitted, vocab |-> vocabulary,
          embeddings |-> <<>>]
    ELSE IF fallback
    THEN _generate_fallback_embeddings(texts, fitted, vocabulary, strict)
    ELSE [raised |-> FALSE, is_fitted |-> fitted, vocab |-> vocabulary,
          embeddings |-> [i \in 1 .. Len(texts) |-> Encode(texts[i])]]

\* generate_single_embedding(text) without the try around the fit on the
\* single text: a failure of the fit leaves the call as an exception.
generate_single_embedding_Unguarded(text, fallback, fitted, vocabulary, strict) ==
    IF ~fallback
    THEN [raised |-> FALSE, is_fitted |-> fitted, vocab |-> vocabulary,
          embedding |-> Encode(text)]
    ELSE LET fit == _generate_fallback_embeddings(<<text>>, fitted,
                                                  vocabulary, strict)
         IN  IF fit.raised
             THEN [raised |-> TRUE, is_fitted |-> fit.is_fitted,
                   vocab |-> fit.vocab, embedding |-> ZeroVector]
             ELSE [raised |-> FALSE, is_fitted |-> fit.is_fitted,
                   vocab |-> fit.vocab,
                   embedding |-> FallbackVector(text, fit.vocab)]

\* generate_single_embedding(text): on the fallback path an unfit embedder
\* is first fit on the text alone; any failure gives the zero vector.
generate_single_embedding(text, fallback, fitted, vocabulary, strict) ==
    IF ~fallback
    THEN [raised |-> FALSE, is_fitted |-> fitted, vocab |-> vocabulary,
          embedding |-> Encode(text)]
    ELSE LET fit == _generate_fallback_embeddings(<<text>>, fitted,
                                                  vocabulary, strict)
         IN  IF fit.raised
             THEN [raised |-> FALSE, is_fitted |-> fit.is_fitted,
                   vocab |-> fit.vocab, embedding |-> ZeroVector]
             ELSE [raised |-> FALSE, is_fitted |-> fit.is_fitted,
                   vocab |-> fit.vocab,
                   embedding |-> FallbackVector(text, fit.vocab)]

(***************************************************************************)
(* VectorDB: scores.  A score s in [0, 1] is the integer s * ScoreUnit; a  *)
(* combined score is held in tenths of that unit, so that the weights 0.4, *)
(* 0.6, 0.7, 0.3 and the thresholds 0.05 and 0.1 are whole numbers.        *)
(***************************************************************************)
ScoreUnit == 600

Dot(v, w) == v[1] * w[1] + v[2] * w[2]

\* np.linalg.norm, exact on the vectors of the model
Norm(v) == CHOOSE n \in 0 .. 25 : n * n = Dot(v, v)

\* The dot product alone, the norms forgotten.
_cosine_similarity_Unnormalised(vec1, vec2) == Dot(vec1, vec2) * ScoreUnit

_cosine_similarity(vec1, vec2) ==
    IF Norm(vec1) = 0 \/ Norm(vec2) = 0
    THEN 0
    ELSE (Dot(vec1, vec2) * ScoreUnit) \div (Norm(vec1) * Norm(vec2))

stop_words ==
    {"the", "a", "an", "and", "or", "but", "in", "on", "at", "to", "for",
     "of", "with", "by", "what", "how", "when", "where", "why", "is", "are",
     "was", "were", "be", "been", "being", "have", "has", "had"}

\* _extract_meaningful_words(query): the lower-cased words that are no
\* stop words and longer than 2, in order.
_extract_meaningful_words(q) ==
    SelectSeq([i \in 1 .. Len(q) |-> Lower(q[i])],
              LAMBDA w : w \notin stop_words /\ TokenLen(w) > 2)

\* f" {word} " in f" {text_lower} "
ExactMatch(word, text) == word \in LowerTokens(text)

\* word in text_lower
PartialMatch(word, text) ==
    \E t \in LowerTokens(text) : IsSubstring(word, t)

_calculate_enhanced_keyword_score(text, query_words) ==
    IF query_words = <<>>
    THEN 0
    ELSE LET words == 1 .. Len(query_words)
             exact_matches ==
                 Cardinality({i \in words : ExactMatch(query_words[i], text)})
             partial_matches ==
                 Cardinality({i \in words :
                                 /\ PartialMatch(query_words[i], text)
                                 /\ ~ExactMatch(query_words[i], text)})
         IN  Min(ScoreUnit,
                 ((2 * exact_matches + partial_matches) * ScoreUnit)
                     \div (2 * Len(query_words)))

\* combined_score with the weights of the sentence encoder on both paths.
CombinedScore_PrimaryWeights(fallback, semantic_score, keyword_score) ==
    7 * semantic_score + 3 * keyword_score

\* combined_score, in tenths of ScoreUnit
CombinedScore(fallback, semantic_score, keyword_score) ==
    IF fallback
    THEN 4 * semantic_score + 6 * keyword_score
    ELSE 7 * semantic_score + 3 * keyword_score

\* min_threshold, in tenths of ScoreUnit: 0.05 and 0.1
MinThreshold(fallback) == IF fallback THEN ScoreUnit \div 2 ELSE ScoreUnit

(***************************************************************************)
(* VectorDB: filters, the metadata index and search                        *)
(***************************************************************************)
\* A filter map gives each key either a value or a list of values:
\* [list |-> FALSE, value |-> v] or [list |-> TRUE, values |-> <<...>>].
\* The filter is matched on whichever key matches, not on all of them.
_apply_filters_AnyKey(data, filters) ==
    IF filters = <<>>
    THEN [i \in 1 .. Len(data) |-> i]
    ELSE SelectSeq([i \in 1 .. Len(data) |-> i],
            LAMBDA idx :
                \E key \in DOMAIN filters :
                    /\ key \in DOMAIN data[idx].metadata
                    /\ IF filters[key].list
                       THEN data[idx].metadata[key]
                                \in Range(filters[key].values)
                       ELSE data[idx].metadata[key] = filters[key].value)

\* A filter key the metadata does not have is skipped, not a mismatch.
_apply_filters_SkipsMissingKey(data, filters) ==
    IF filters = <<>>
    THEN [i \in 1 .. Len(data) |-> i]
    ELSE SelectSeq([i \in 1 .. Len(data) |-> i],
            LAMBDA idx :
                \A key \in DOMAIN filters :
                    key \in DOMAIN data[idx].metadata =>
                        IF filters[key].list
                        THEN data[idx].metadata[key]
                                 \in Range(filters[key].values)
                        ELSE data[idx].metadata[key] = filters[key].value)

\* The positions (from 1) of the records whose metadata matches every key
\* of the filter map.
_apply_filters(data, filters) ==
    IF filters = <<>>
    THEN [i \in 1 .. Len(data) |-> i]
    ELSE SelectSeq([i \in 1 .. Len(data) |-> i],
            LAMBDA idx :
                \A key \in DOMAIN filters :
                    /\ key \in DOMAIN data[idx].metadata
                    /\ IF filters[key].list
                       THEN data[idx].metadata[key]
                                \in Range(filters[key].values)
                       ELSE data[idx].metadata[key] = filters[key].value)

\* The metadata fields whose values are lists or dicts.
NonScalarKeys == {"keywords", "financial_content_types", "source_attribution"}

\* The record is indexed under the length of the list after the append,
\* one past its position.
_update_metadata_index_OffByOne(idx, metadata, chunk_index) ==
    LET keys == DOMAIN metadata \ NonScalarKeys
    IN  [key \in DOMAIN idx \cup keys |->
            IF key \notin keys THEN idx[key]
            ELSE LET old == IF key \in DOMAIN idx THEN idx[key] ELSE <<>>
                     value == metadata[key]
                 IN  [v \in DOMAIN old \cup {value} |->
                        IF v = value
                        THEN (IF v \in DOMAIN old THEN old[v] ELSE <<>>)
                                 \o <<chunk_index + 1>>
                        ELSE old[v]]]

\* _update_metadata_index(metadata, chunk_index) on the index idx; a
\* record's position in the index counts from 0.
_update_metadata_index(idx, metadata, chunk_index) ==
    LET keys == DOMAIN metadata \ NonScalarKeys
    IN  [key \in DOMAIN idx \cup keys |->
            IF key \notin keys THEN idx[key]
            ELSE LET old == IF key \in DOMAIN idx THEN idx[key] ELSE <<>>
                     value == metadata[key]
                 IN  [v \in DOMAIN old \cup {value} |->
                        IF v = value
                        THEN (IF v \in DOMAIN old THEN old[v] ELSE <<>>)
                                 \o <<chunk_index>>
                        ELSE old[v]]]

\* results.sort(key=similarity, reverse=True) left out.
SortBySimilarity_Unsorted(rs) == rs

\* results.sort(key=lambda x: x['similarity'], reverse=True): a stable sort
\* into non-increasing similarity, as an insertion sort.
RECURSIVE SortBySimilarity(_)
SortBySimilarity(rs) ==
    IF Len(rs) <= 1 THEN rs
    ELSE LET sorted == SortBySimilarity(SubSeq(rs, 1, Len(rs) - 1))
             last == rs[Len(rs)]
             ahead == SelectSeq(sorted,
                          LAMBDA r : r.similarity >= last.similarity)
             behind == SelectSeq(sorted,
                          LAMBDA r : r.similarity < last.similarity)
         IN  ahead \o <<last>> \o behind

\* results[:n_results]
Truncate(rs, n) == SubSeq(rs, 1, Min(n, Len(rs)))

\* The loop of search over candidate_indices: one scored result per
\* candidate, those not above the threshold dropped.
ScoreCandidates(data, candidates, query_embedding, query_words, fallback) ==
    LET scored ==
            [c \in 1 .. Len(candidates) |->
                LET chunk == data[candidates[c]]
                    semantic_score ==
                        Max(0, _cosine_similarity(query_embedding,
                                                  chunk.embedding))
                    keyword_score ==
                        _calculate_enhanced_keyword_score(chunk.text,
                                                          query_words)
                IN  [text |-> chunk.text,
                     metadata |-> chunk.metadata,
                     chunk_id |-> chunk.chunk_id,
                     similarity |-> CombinedScore(fallback, semantic_score,
                                                  keyword_score),
                     semantic_score |-> semantic_score,
                     keyword_score |-> keyword_score]]
    IN  SelectSeq(scored, LAMBDA r : r.similarity > MinThreshold(fallback))

\* search(query, n_results, filters) given the query embedding
search(data, q, n_results, filters, query_embedding, fallback) ==
    IF data = <<>> THEN <<>>
    ELSE LET candidate_indices ==
                 IF filters # <<>> THEN _apply_filters(data, filters)
                 ELSE [i \in 1 .. Len(data) |-> i]
         IN  IF candidate_indices = <<>> THEN <<>>
             ELSE Truncate(
                      SortBySimilarity(
                          ScoreCandidates(data, candidate_indices,
                                          query_embedding,
                                          _extract_meaningful_words(q),
                                          fallback)),
                      n_results)

search_by_metadata(data, metadata_filters, n_results) ==
    LET candidate_indices ==
            Truncate(_apply_filters(data, metadata_filters), n_results)
    IN  [c \in 1 .. Len(candidate_indices) |->
            [text |-> data[candidate_indices[c]].text,
             metadata |-> data[candidate_indices[c]].metadata,
             chunk_id |-> data[candidate_indices[c]].chunk_id,
             similarity |-> 10 * ScoreUnit]]

\* get_chunk_by_id(chunk_id): the first record with that id, or None
get_chunk_by_id(data, chunk_id) ==
    IF \E i \in 1 .. Len(data) : data[i].chunk_id = chunk_id
    THEN LET i == CHOOSE i \in 1 .. Len(data) :
                     /\ data[i].chunk_id = chunk_id
                     /\ \A j \in 1 .. i - 1 : data[j].chunk_id # chunk_id
         IN  [found |-> TRUE, text |-> data[i].text,
              metadata |-> data[i].metadata, chunk_id |-> data[i].chunk_id]
    ELSE [found |-> FALSE]

\* get_collection_stats(): the counts of chunks, tickers and filing types
get_collection_stats(data) ==
    IF data = <<>> THEN [total_chunks |-> 0]
    ELSE LET with(key) == {i \in 1 .. Len(data) :
                              key \in DOMAIN data[i].metadata}
         IN  [total_chunks |-> Len(data),
              unique_tickers |->
                  Cardinality({data[i].metadata["ticker"] :
                                  i \in with("ticker")}),
              unique_filing_types |->
                  Cardinality({data[i].metadata["filing_type"] :
                                  i \in with("filing_type")})]

(***************************************************************************)
(* VectorDB: the snapshot on disk                                          *)
(***************************************************************************)
collection_name == "sec_filings"

\* The dict _save_to_disk pickles.
SnapshotOf(data, index, now) ==
    [kind |-> "snapshot", chunks_data |-> data, metadata_index |-> index,
     collection_name |-> collection_name, saved_at |-> now]

\* The snapshot is taken without the record appended last.
_save_to_disk_DropsLast(file, data, index, now, outcome) ==
    IF outcome = "ok"
    THEN SnapshotOf(SubSeq(data, 1, Len(data) - 1), index, now)
    ELSE file

\* _save_to_disk(): the file after the call.  open(path, 'wb') truncates
\* the file before pickle.dump writes into it, so a failure after the
\* open leaves a truncated, unreadable file; a failure of the open itself
\* leaves the file as it was.  Either failure is caught and printed.
_save_to_disk(file, data, index, now, outcome) ==
    IF outcome = "ok" THEN SnapshotOf(data, index, now)
    ELSE IF outcome = "open_failed" THEN file
    ELSE [kind |-> "corrupt"]

SaveOutcomes == {"ok", "open_failed", "write_failed"}

\* _fit_tfidf_on_loaded_data(): the embedder after the call; every
\* exception is caught and printed.
FitBatchSize == 500

_fit_tfidf_on_loaded_data(data, strict) ==
    LET texts == [i \in 1 .. Min(Len(data), FitBatchSize) |-> data[i].text]
        fit == generate_embeddings(texts, TRUE, FALSE, {}, strict)
    IN  [is_fitted |-> fit.is_fitted, vocab |-> fit.vocab]

\* _load_from_disk() with the except clause left out: a failed read leaves
\* the constructor as an exception.
_load_from_disk_Unguarded(file, fallback, strict) ==
    IF file.kind = "corrupt"
    THEN [raised |-> TRUE, io |-> "read_failed",
          chunks_data |-> <<>>, metadata_index |-> <<>>,
          is_fitted |-> FALSE, vocab |-> {}, refit |-> FALSE]
    ELSE IF file.kind = "absent"
    THEN [raised |-> FALSE, io |-> "absent",
          chunks_data |-> <<>>, metadata_index |-> <<>>,
          is_fitted |-> FALSE, vocab |-> {}, refit |-> FALSE]
    ELSE LET fit == IF file.chunks_data # <<>> /\ fallback
                    THEN _fit_tfidf_on_loaded_data(file.chunks_data, strict)
                    ELSE [is_fitted |-> FALSE, vocab |-> {}]
         IN  [raised |-> FALSE, io |-> "loaded",
              chunks_data |-> file.chunks_data,
              metadata_index |-> file.metadata_index,
              is_fitted |-> fit.is_fitted, vocab |-> fit.vocab,
              refit |-> file.chunks_data # <<>> /\ fallback]

\* _load_from_disk() on a freshly constructed VectorDB: the store and the
\* embedder after the call.
_load_from_disk(file, fallback, strict) ==
    IF file.kind = "absent"
    THEN [raised |-> FALSE, io |-> "absent",
          chunks_data |-> <<>>, metadata_index |-> <<>>,
          is_fitted |-> FALSE, vocab |-> {}, refit |-> FALSE]
    ELSE IF file.kind = "corrupt"
    THEN [raised |-> FALSE, io |-> "read_failed",
          chunks_data |-> <<>>, metadata_index |-> <<>>,
          is_fitted |-> FALSE, vocab |-> {}, refit |-> FALSE]
    ELSE LET fit == IF file.chunks_data # <<>> /\ fallback
                    THEN _fit_tfidf_on_loaded_data(file.chunks_data, strict)
                    ELSE [is_fitted |-> FALSE, vocab |-> {}]
         IN  [raised |-> FALSE, io |-> "loaded",
              chunks_data |-> file.chunks_data,
              metadata_index |-> file.metadata_index,
              is_fitted |-> fit.is_fitted, vocab |-> fit.vocab,
              refit |-> file.chunks_data # <<>> /\ fallback]

(***************************************************************************)
(* Idle values of the variables a specification does not use               *)
(***************************************************************************)
NoDoc == [filename |-> <<>>,
          text |-> [nWords |-> 0, wordLen |-> 1, xbrl |-> 0, phrases |-> {},
                    content_types |-> <<>>]]
NoDisk == [kind |-> "absent"]
NoQuery == [kind |-> "none"]
NoCall == [call |-> "none"]

LoopIdle ==
    /\ pc = "idle" /\ start_idx = 0 /\ chunk_counter = 0
    /\ iterations = 0 /\ prev_start = -1

RunsIdle ==
    /\ chunks = <<>> /\ first_chunks = <<>> /\ runs = 0 /\ hash_seed = 0

Threads == {1, 2}

ThreadsIdle ==
    /\ thread_pc = [t \in Threads |-> "idle"]
    /\ thread_texts = [t \in Threads |-> <<>>]
    /\ tfidf_fits = 0 /\ svd_fits = 0

NoEntities ==
    [tickers |-> <<>>, time_periods |-> [years |-> <<>>, relative_terms |-> <<>>],
     filing_types |-> <<>>, financial_concepts |-> <<>>,
     comparison_intent |-> [is_comparison |-> FALSE, comparison_type |-> "None"]]

RouterIdle ==
    /\ entities = NoEntities /\ query_type = "none" /\ router_pc = "idle"
    /\ pending = <<>> /\ all_results = 0 /\ search_calls = 0
    /\ route_raised = FALSE /\ relevant_docs = 0
    /\ sub_results = <<>> /\ documents = <<>>

BatchIdle ==
    /\ filepaths = <<>> /\ file_i = 0 /\ all_chunks = <<>>
    /\ processed_count = 0 /\ skipped_count = 0 /\ error_count = 0
    /\ batch_pc = "idle" /\ interrupted = FALSE

NoAnswer == [status |-> "none"]

SystemIdle ==
    /\ system_ready = FALSE /\ sys_pc = "new" /\ self_chunks = <<>>
    /\ router_data = <<>> /\ router_calls = 0 /\ synth_calls = 0
    /\ answer = NoAnswer

AuxIdle == ThreadsIdle /\ RouterIdle /\ BatchIdle /\ SystemIdle

StoreIdle ==
    /\ chunks_data = <<>> /\ metadata_index = <<>>
    /\ use_fallback = FALSE /\ svd_strict = FALSE
    /\ is_fitted = FALSE /\ vocab = {}
    /\ disk = NoDisk /\ op = "none" /\ ioResult = "none" /\ raised = FALSE
    /\ embed_call = NoCall
    /\ results = <<>> /\ query = NoQuery

(***************************************************************************)
(* SpecChunkLoop: _create_chunks, one action per loop iteration            *)
(***************************************************************************)
LoopChunkSizes == (1 .. MaxChunkSize) \cup {CHUNK_SIZE}
LoopOverlaps == (-1 .. MaxOverlap) \cup {CHUNK_OVERLAP}
LoopWordCounts == {0, MinWords - 1} \cup (MinWords .. MaxWords)
LoopWordLens == {1, 20, MinChunkChars}

InitChunkLoop ==
    /\ chunk_size \in LoopChunkSizes
    /\ overlap \in LoopOverlaps
    /\ doc \in [filename : FileNames,
                text : TextsOf(LoopWordCounts, LoopWordLens, {<<>>})]
    /\ pc = "start" /\ start_idx = 0 /\ chunk_counter = 0
    /\ iterations = 0 /\ prev_start = -1
    /\ RunsIdle /\ clock = 0 /\ StoreIdle /\ AuxIdle

\* Lines 108-128: the early returns, then start_idx = 0, chunk_counter = 0.
LoopBegin ==
    /\ pc = "start"
    /\ pc' = IF EntersLoop(doc.text, BaseMetadata(doc)) THEN "loop" ELSE "done"
    /\ UNCHANGED <<chunk_size, overlap, doc, start_idx, chunk_counter,
                   iterations, prev_start, chunks, first_chunks, runs,
                   hash_seed, clock, storeVars, auxVars>>

\* Lines 130-140: an iteration whose window renders to fewer than 50
\* characters stops the loop.
LoopShortBreak ==
    /\ pc = "loop"
    /\ start_idx < WordCount(doc.text)
    /\ ChunkTextLen(doc.text, start_idx,
                    ChunkEnd(start_idx, chunk_size, doc.text)) < MinChunkChars
    /\ pc' = "done"
    /\ iterations' = iterations + 1
    /\ UNCHANGED <<chunk_size, overlap, doc, start_idx, chunk_counter,
                   prev_start, chunks, first_chunks, runs, hash_seed, clock,
                   storeVars, auxVars>>

\* Lines 130-173: an iteration that appends a chunk and moves start_idx;
\* the loop ends when the new start_idx is at or past len(words).
LoopIter ==
    /\ pc = "loop"
    /\ start_idx < WordCount(doc.text)
    /\ LET end_idx == ChunkEnd(start_idx, chunk_size, doc.text)
           next_start == NextStart(start_idx, end_idx, chunk_size, overlap)
       IN  /\ ChunkTextLen(doc.text, start_idx, end_idx) >= MinChunkChars
           /\ chunk_counter' = chunk_counter + 1
           /\ prev_start' = start_idx
           /\ start_idx' = next_start
           /\ pc' = IF next_start >= WordCount(doc.text) THEN "done" ELSE "loop"
    /\ iterations' = iterations + 1
    /\ UNCHANGED <<chunk_size, overlap, doc, chunks, first_chunks, runs,
                   hash_seed, clock, storeVars, auxVars>>

NextChunkLoop == LoopBegin \/ LoopShortBreak \/ LoopIter

SpecChunkLoop == InitChunkLoop /\ [][NextChunkLoop]_vars

\* C1: _create_chunks terminates for every chunk_size >= 1 and every
\* overlap: each iteration that continues the loop moves start_idx strictly
\* forward, the loop never runs more than len(words) iterations, and unless
\* it has returned it can always take its next step.
C1_ChunkLoopTerminates ==
    /\ start_idx > prev_start
    /\ iterations <= WordCount(doc.text)
    /\ (pc = "loop" => start_idx >= iterations)
    /\ (pc = "done" \/ ENABLED NextChunkLoop)

\* C1 witness: a run with overlap >= chunk_size that has taken the forced
\* advance several times and returned.
C1_Witness ==
    /\ pc = "done" /\ overlap >= chunk_size
    /\ chunk_counter >= 3 /\ start_idx >= WordCount(doc.text)

(***************************************************************************)
(* SpecChunker: whole runs of _create_chunks on one document               *)
(***************************************************************************)
MaxRuns == 2

RunChunkSizes == {50, CHUNK_SIZE}
RunOverlaps == {5, 50, CHUNK_OVERLAP}
RunWordCounts == {0, MinWords - 1, MinWords, MaxWords, XbrlMaxWords}
RunWordLens == {1, 20}

InitChunker ==
    /\ chunk_size \in RunChunkSizes
    /\ overlap \in RunOverlaps
    /\ doc \in [filename : FileNames,
                text : TextsOf(RunWordCounts, RunWordLens, ContentTypeLists)]
    /\ hash_seed \in {0, 1}
    /\ chunks = <<>> /\ first_chunks = <<>> /\ runs = 0
    /\ LoopIdle /\ clock = 0 /\ StoreIdle /\ AuxIdle

\* One call of _create_chunks(text, base_metadata) on doc; the run reads
\* the clock for the source attribution of each chunk.
ChunkDoc ==
    /\ runs < MaxRuns
    /\ chunks' = _create_chunks(doc.text, BaseMetadata(doc), chunk_size,
                                overlap, clock, hash_seed)
    /\ first_chunks' = chunks
    /\ runs' = runs + 1
    /\ UNCHANGED <<chunk_size, overlap, doc, pc, start_idx, chunk_counter,
                   iterations, prev_start, hash_seed, clock, storeVars, auxVars>>

\* The wall clock moves on between two calls.
Tick ==
    /\ clock < MaxClock
    /\ clock' = clock + 1
    /\ UNCHANGED <<chunkerVars, storeVars, auxVars>>

NextChunker == ChunkDoc \/ Tick

SpecChunker == InitChunker /\ [][NextChunker]_vars

Rejected(d) == ~_validate_filing_content(d.text, BaseMetadata(d)).is_valid

\* The metadata of a chunk without the extraction timestamp of its source
\* attribution.
Untimed(metadata) ==
    [metadata EXCEPT !["source_attribution"] =
        [k \in DOMAIN @ \ {"extraction_timestamp"} |-> @[k]]]

\* C2 as stated: chunking the same document twice yields chunk lists equal
\* position by position in chunk_id, content and every metadata field.
C2_RechunkIdentical ==
    runs >= 2 =>
        /\ Len(chunks) = Len(first_chunks)
        /\ \A i \in 1 .. Len(chunks) :
              /\ chunks[i].chunk_id = first_chunks[i].chunk_id
              /\ chunks[i].content = first_chunks[i].content
              /\ chunks[i].metadata = first_chunks[i].metadata

\* C2 amended: chunking the same document twice in one process yields chunk
\* lists equal position by position in chunk_id, content and every metadata
\* field other than source_attribution.extraction_timestamp, which holds
\* the wall-clock time of each run.
C2_RechunkIdenticalButTimestamp ==
    runs >= 2 =>
        /\ Len(chunks) = Len(first_chunks)
        /\ \A i \in 1 .. Len(chunks) :
              /\ chunks[i].chunk_id = first_chunks[i].chunk_id
              /\ chunks[i].content = first_chunks[i].content
              /\ Untimed(chunks[i].metadata)
                    = Untimed(first_chunks[i].metadata)

\* C2 witness: a document chunked twice into several chunks, the clock
\* having moved between the two runs.
C2_Witness ==
    /\ runs >= 2 /\ Len(chunks) >= 3
    /\ chunks[1].metadata.source_attribution.extraction_timestamp
         # first_chunks[1].metadata.source_attribution.extraction_timestamp

\* C3: for every text the content validator rejects and every metadata
\* record, _create_chunks returns an empty chunk list.
C3_RejectedYieldsNoChunks ==
    (runs >= 1 /\ Rejected(doc)) => chunks = <<>>

\* C3 witness: a run on a text of 100 words or more, long enough to be cut
\* into chunks, that the validator rejects.
C3_Witness ==
    /\ runs >= 1 /\ Rejected(doc) /\ chunks = <<>>
    /\ WordCount(doc.text) >= MinWords
    /\ ChunkLoop(doc.text, BaseMetadata(doc), chunk_size, overlap, 0, 0,
                 clock, hash_seed) # <<>>

(***************************************************************************)
(* Specification Spec: one VectorDB over its snapshot file.  The store is  *)
(* constructed, chunks are added, it is searched, reset and deleted, and a *)
(* restart constructs a fresh VectorDB over the same file.                 *)
(***************************************************************************)
ChunkerIdle ==
    /\ chunk_size = CHUNK_SIZE /\ overlap = CHUNK_OVERLAP /\ doc = NoDoc
    /\ LoopIdle /\ RunsIdle

DocA == <<"AAPL", "10-K", "20230101">>
DocB == <<"MSFT", "8-K", "20240101">>

\* A DocumentChunk of the file, as _create_chunks builds it
StoreChunk(filename, chunk_index, content, keywords) ==
    [content |-> content,
     metadata |-> [source_file |-> filename, chunk_index |-> chunk_index,
                   keywords |-> keywords]
                      @@ _extract_file_metadata(filename),
     chunk_id |-> _generate_chunk_id(_extract_file_metadata(filename),
                                     chunk_index)]

\* The lists add_chunks is called with: none, the two chunks of one
\* filing, and the single chunk of another.
Batches ==
    {<<>>,
     <<StoreChunk(DocA, 0, <<"revenues", "debt">>, <<"debt">>),
       StoreChunk(DocA, 1, <<"Apple", "revenue">>, <<"revenue">>)>>,
     <<StoreChunk(DocB, 0, <<"the", "revenue">>, <<>>)>>}

Queries ==
    {<<"the", "revenue">>, <<"ai", "apple", "debt", "margin">>}

Eq(v) == [list |-> FALSE, value |-> v]
OneOf(vs) == [list |-> TRUE, values |-> vs]

Filters ==
    {<<>>,
     [ticker |-> OneOf(<<"AAPL", "MSFT">>)],
     [ticker |-> Eq("AAPL"), chunk_index |-> Eq(1)],
     [filing_type |-> Eq("8-K")],
     [sector |-> Eq("Technology")]}

\* The values of n_results
ResultLimits == {1, MaxResults}

Init ==
    /\ ChunkerIdle /\ AuxIdle /\ clock = 0
    /\ use_fallback \in BOOLEAN
    /\ svd_strict \in (IF use_fallback THEN BOOLEAN ELSE {FALSE})
    /\ chunks_data = <<>> /\ metadata_index = <<>>
    /\ is_fitted = FALSE /\ vocab = {}
    /\ disk = NoDisk /\ op = "none" /\ ioResult = "none" /\ raised = FALSE
    /\ embed_call = NoCall
    /\ results = <<>> /\ query = NoQuery

\* The records add_chunks appends for new_chunks
NewRecords(new_chunks, embeddings, now) ==
    [i \in 1 .. Len(new_chunks) |->
        [text |-> new_chunks[i].content,
         metadata |-> new_chunks[i].metadata,
         chunk_id |-> new_chunks[i].chunk_id,
         embedding |-> embeddings[i],
         added_date |-> now]]

\* The index after _update_metadata_index ran for each of new_chunks, the
\* first of them stored at position base.
RECURSIVE IndexChunks(_, _, _)
IndexChunks(index, new_chunks, base) ==
    IF new_chunks = <<>> THEN index
    ELSE LET n == Len(new_chunks)
         IN  _update_metadata_index(
                 IndexChunks(index, SubSeq(new_chunks, 1, n - 1), base),
                 new_chunks[n].metadata, base + n - 1)

\* The new records are put in front of the stored ones.
AppendRecords_AtFront(data, records) == records \o data

\* self.chunks_data.append(chunk_data) for each of the new records
AppendRecords(data, records) == data \o records

\* add_chunks never returns before its work.
ReturnsEarly_Never(new_chunks) == FALSE

\* if not chunks: return
ReturnsEarly(new_chunks) == new_chunks = <<>>

\* add_chunks(chunks)
AddChunks ==
    \E new_chunks \in Batches, outcome \in SaveOutcomes :
        /\ Len(chunks_data) + Len(new_chunks) <= MaxRecords
        /\ op' = "add_chunks" /\ results' = <<>>
        /\ query' = [kind |-> "add_chunks", count |-> Len(new_chunks)]
        /\ IF ReturnsEarly(new_chunks)
           THEN /\ raised' = FALSE /\ ioResult' = "none"
                /\ embed_call' = NoCall
                /\ UNCHANGED <<chunks_data, metadata_index, is_fitted,
                               vocab, disk>>
           ELSE LET texts == [i \in 1 .. Len(new_chunks) |->
                                 new_chunks[i].content]
                    gen == generate_embeddings(texts, use_fallback,
                                               is_fitted, vocab, svd_strict)
                    data == AppendRecords(chunks_data,
                                          NewRecords(new_chunks,
                                                     gen.embeddings, clock))
                    index == IndexChunks(metadata_index, new_chunks,
                                         Len(chunks_data))
                IN  /\ is_fitted' = gen.is_fitted /\ vocab' = gen.vocab
                    /\ raised' = gen.raised
                    /\ embed_call' = [call |-> "generate_embeddings",
                                      count |-> Len(texts),
                                      was_fitted |-> is_fitted]
                    /\ IF gen.raised
                       THEN /\ ioResult' = "none"
                            /\ UNCHANGED <<chunks_data, metadata_index,
                                           disk>>
                       ELSE /\ chunks_data' = data
                            /\ metadata_index' = index
                            /\ disk' = _save_to_disk(disk, data, index,
                                                     clock, outcome)
                            /\ ioResult' = outcome
        /\ UNCHANGED <<chunkerVars, auxVars, clock, envVars>>

\* search() returns before it embeds the query when the store or the
\* filtered candidate list is empty.
EmbedsQuery(data, filters) ==
    data # <<>> /\ (filters = <<>> \/ _apply_filters(data, filters) # <<>>)

\* search(query, n_results, filters)
Search ==
    \E q \in Queries, n \in ResultLimits, filters \in Filters :
        LET emb == generate_single_embedding(q, use_fallback, is_fitted,
                                             vocab, svd_strict)
        IN  /\ op' = "search" /\ ioResult' = "none"
            /\ query' = [kind |-> "search", text |-> q, n_results |-> n,
                         filters |-> filters]
            /\ IF EmbedsQuery(chunks_data, filters)
               THEN /\ is_fitted' = emb.is_fitted /\ vocab' = emb.vocab
                    /\ raised' = emb.raised
                    /\ embed_call' = [call |-> "generate_single_embedding",
                                      was_fitted |-> is_fitted,
                                      embedding |-> emb.embedding]
                    /\ results' = IF emb.raised THEN <<>>
                                  ELSE search(chunks_data, q, n, filters,
                                              emb.embedding, use_fallback)
               ELSE /\ results' = <<>> /\ raised' = FALSE
                    /\ embed_call' = NoCall
                    /\ UNCHANGED <<is_fitted, vocab>>
            /\ UNCHANGED <<chunkerVars, auxVars, clock, envVars, chunks_data,
                           metadata_index, disk>>

\* search_by_metadata(metadata_filters, n_results)
SearchByMetadata ==
    \E n \in ResultLimits, filters \in Filters :
        /\ op' = "search_by_metadata" /\ raised' = FALSE
        /\ embed_call' = NoCall
        /\ ioResult' = "none"
        /\ query' = [kind |-> "search_by_metadata", n_results |-> n,
                     filters |-> filters]
        /\ results' = search_by_metadata(chunks_data, filters, n)
        /\ UNCHANGED <<chunkerVars, auxVars, clock, envVars, chunks_data,
                       metadata_index, is_fitted, vocab, disk>>

\* The chunk ids get_chunk_by_id is asked for: the ids of the chunks of
\* the two filings and one that is never stored.
LookupIds ==
    {_generate_chunk_id(_extract_file_metadata(DocA), 0),
     _generate_chunk_id(_extract_file_metadata(DocB), 0),
     _generate_chunk_id(<<>>, 0)}

\* get_chunk_by_id(chunk_id)
GetChunkById ==
    \E chunk_id \in LookupIds :
        /\ op' = "get_chunk_by_id" /\ raised' = FALSE /\ ioResult' = "none"
        /\ embed_call' = NoCall
        /\ query' = [kind |-> "get_chunk_by_id", chunk_id |-> chunk_id]
        /\ results' = get_chunk_by_id(chunks_data, chunk_id)
        /\ UNCHANGED <<chunkerVars, auxVars, clock, envVars, chunks_data,
                       metadata_index, is_fitted, vocab, disk>>

\* get_collection_stats()
GetCollectionStats ==
    /\ op' = "get_collection_stats" /\ raised' = FALSE /\ ioResult' = "none"
    /\ embed_call' = NoCall
    /\ query' = NoQuery
    /\ results' = get_collection_stats(chunks_data)
    /\ UNCHANGED <<chunkerVars, auxVars, clock, envVars, chunks_data,
                   metadata_index, is_fitted, vocab, disk>>

\* VectorDB(): the process starts again and constructs a fresh store and
\* a fresh, unfit embedding generator over the snapshot file.
Construct ==
    LET loaded == _load_from_disk(disk, use_fallback, svd_strict)
    IN  /\ op' = "construct" /\ raised' = loaded.raised
        /\ ioResult' = loaded.io
        /\ embed_call' = IF loaded.refit
                         THEN [call |-> "generate_embeddings",
                               count |-> Min(Len(loaded.chunks_data),
                                             FitBatchSize),
                               was_fitted |-> FALSE]
                         ELSE NoCall
        /\ chunks_data' = loaded.chunks_data
        /\ metadata_index' = loaded.metadata_index
        /\ is_fitted' = loaded.is_fitted /\ vocab' = loaded.vocab
        /\ results' = <<>> /\ query' = NoQuery
        /\ UNCHANGED <<chunkerVars, auxVars, clock, envVars, disk>>

\* delete_collection(): memory is cleared and the snapshot file removed
DeleteCollection ==
    /\ op' = "delete_collection" /\ raised' = FALSE /\ ioResult' = "none"
    /\ embed_call' = NoCall
    /\ chunks_data' = <<>> /\ metadata_index' = <<>>
    /\ disk' = NoDisk
    /\ results' = <<>> /\ query' = NoQuery
    /\ UNCHANGED <<chunkerVars, auxVars, clock, envVars, is_fitted, vocab>>

\* reset_collection(): memory is cleared, the file is left alone
ResetCollection ==
    /\ op' = "reset_collection" /\ raised' = FALSE /\ ioResult' = "none"
    /\ embed_call' = NoCall
    /\ chunks_data' = <<>> /\ metadata_index' = <<>>
    /\ results' = <<>> /\ query' = NoQuery
    /\ UNCHANGED <<chunkerVars, auxVars, clock, envVars, is_fitted, vocab, disk>>

Next ==
    \/ AddChunks
    \/ Search
    \/ SearchByMetadata
    \/ GetChunkById
    \/ GetCollectionStats
    \/ Construct
    \/ DeleteCollection
    \/ ResetCollection

Spec == Init /\ [][Next]_vars

(***************************************************************************)
(* Properties of the store                                                 *)
(***************************************************************************)
\* The filter map F holds of a record's metadata: every key of F is a key
\* of the metadata, with the value F gives it or one of the listed values.
Satisfies(metadata, filters) ==
    \A key \in DOMAIN filters :
        /\ key \in DOMAIN metadata
        /\ IF filters[key].list
           THEN \E i \in 1 .. Len(filters[key].values) :
                    metadata[key] = filters[key].values[i]
           ELSE metadata[key] = filters[key].value

\* C4: every result search or search_by_metadata returns for a filter map
\* F has metadata that satisfies F.
C4_ResultsSatisfyFilter ==
    op \in {"search", "search_by_metadata"} =>
        \A i \in 1 .. Len(results) :
            Satisfies(results[i].metadata, query.filters)

\* A search under a two-key filter over a store of three records, one of
\* which passes the filter and is returned.
C4_Witness ==
    /\ op = "search"
    /\ query.filters = [ticker |-> Eq("AAPL"), chunk_index |-> Eq(1)]
    /\ Len(chunks_data) = 3
    /\ Len(results) = 1
    /\ \E i \in 1 .. 3 : ~Satisfies(chunks_data[i].metadata, query.filters)

C6_ResultsNonIncreasing ==
    op = "search" =>
        \A i \in 1 .. Len(results) - 1 :
            results[i].similarity >= results[i + 1].similarity

\* An unfiltered search whose best result is not the record stored first,
\* which comes second with a smaller similarity.
C6_Witness ==
    /\ op = "search" /\ query.filters = <<>>
    /\ Len(results) = 2
    /\ results[1].similarity > results[2].similarity
    /\ results[2].chunk_id = chunks_data[1].chunk_id
    /\ results[2].text = chunks_data[1].text

StoredIds(data) == {data[i].chunk_id : i \in 1 .. Len(data)}

\* C7: when add_chunks has added chunks and written the snapshot, a fresh
\* VectorDB constructed over the same file reports the same total,
\* unique-ticker and unique-filing-type counts, and get_chunk_by_id gives
\* the same text and metadata for every stored chunk id.
C7_SnapshotRoundTrip ==
    [][(op = "add_chunks" /\ ioResult = "ok" /\ op' = "construct") =>
          /\ get_collection_stats(chunks_data')
                 = get_collection_stats(chunks_data)
          /\ \A id \in StoredIds(chunks_data) :
                 get_chunk_by_id(chunks_data', id)
                     = get_chunk_by_id(chunks_data, id)]_vars

\* A fresh VectorDB that loaded a snapshot of three chunks of two
\* companies.
C7_Witness ==
    /\ op = "construct" /\ ioResult = "loaded"
    /\ Len(chunks_data) = 3
    /\ get_collection_stats(chunks_data).unique_tickers = 2
    /\ get_chunk_by_id(chunks_data, <<"MSFT", "8-K", "20240101", 0>>).found

\* C8: a snapshot write that fails leaves the snapshot written before it
\* intact.
C8_FailedWriteKeepsSnapshot ==
    [][(/\ disk.kind = "snapshot"
        /\ op' = "add_chunks"
        /\ ioResult' \in {"open_failed", "write_failed"}) =>
          disk' = disk]_vars

\* C9: when reading the snapshot fails, the construction does not raise
\* and leaves an empty store with an empty metadata index.
C9_FailedReadGivesEmptyStore ==
    (op = "construct" /\ ioResult = "read_failed") =>
        /\ ~raised
        /\ chunks_data = <<>>
        /\ metadata_index = <<>>

\* A VectorDB constructed over a snapshot file that cannot be read.
C9_Witness ==
    /\ op = "construct" /\ ioResult = "read_failed"
    /\ disk.kind = "corrupt"
    /\ ~raised /\ chunks_data = <<>> /\ metadata_index = <<>>

\* C10: no two stored records share a chunk_id.
C10_ChunkIdsUnique ==
    \A i, j \in 1 .. Len(chunks_data) :
        i # j => chunks_data[i].chunk_id # chunks_data[j].chunk_id

(***************************************************************************)
(* Properties of the metadata index and of the records                     *)
(***************************************************************************)
\* The positions, from 0, of the records of data whose metadata has the
\* value v under key k, in order.
PositionsOf(data, k, v) ==
    SelectSeq([i \in 1 .. Len(data) |-> i - 1],
              LAMBDA p : /\ k \in DOMAIN data[p + 1].metadata
                         /\ data[p + 1].metadata[k] = v)

\* C11: the metadata index is in sync with the records: under every key
\* and value it lists exactly the positions of the records with that
\* scalar metadata value, and every scalar metadata value of a record is
\* listed.
C11_IndexInSync ==
    /\ \A k \in DOMAIN metadata_index :
           \A v \in DOMAIN metadata_index[k] :
               /\ k \notin NonScalarKeys
               /\ metadata_index[k][v] # <<>>
               /\ metadata_index[k][v] = PositionsOf(chunks_data, k, v)
    /\ \A i \in 1 .. Len(chunks_data) :
           \A k \in DOMAIN chunks_data[i].metadata \ NonScalarKeys :
               /\ k \in DOMAIN metadata_index
               /\ chunks_data[i].metadata[k] \in DOMAIN metadata_index[k]

\* A fresh VectorDB that loaded three records of two companies and their
\* index from the snapshot.
C11_Witness ==
    /\ op = "construct" /\ ioResult = "loaded"
    /\ Len(chunks_data) = 3
    /\ metadata_index["ticker"]["MSFT"] = <<0>>
    /\ metadata_index["ticker"]["AAPL"] = <<1, 2>>
    /\ metadata_index["chunk_index"][0] = <<0, 1>>

\* old is a prefix of new: every record of old is in new at its position.
IsPrefix(old, new) ==
    Len(old) <= Len(new) /\ SubSeq(new, 1, Len(old)) = old

\* C12: the records are append-only.  add_chunks keeps every stored record
\* (text, metadata, chunk_id, vector, added_date) at its position and only
\* appends; search, search_by_metadata, get_chunk_by_id and
\* get_collection_stats change no record; and a step that drops or changes
\* a record of a store is a delete_collection or a reset_collection (the
\* construction of a fresh VectorDB starts another store from the file).
C12_AppendOnly ==
    [][/\ op' = "add_chunks" => IsPrefix(chunks_data, chunks_data')
       /\ op' \in {"search", "search_by_metadata", "get_chunk_by_id",
                   "get_collection_stats"} => chunks_data' = chunks_data
       /\ ~IsPrefix(chunks_data, chunks_data') =>
              op' \in {"delete_collection", "reset_collection",
                       "construct"}]_vars

\* An add_chunks that appended the two chunks of one filing behind the
\* stored chunk of another.
C12_Witness ==
    /\ op = "add_chunks" /\ ~raised
    /\ Len(chunks_data) = 3
    /\ chunks_data[1].chunk_id = <<"MSFT", "8-K", "20240101", 0>>
    /\ chunks_data[3].chunk_id = <<"AAPL", "10-K", "20230101", 1>>

\* C13: add_chunks([]) is a no-op: it leaves the records, the metadata
\* index, the fit state of the embedder and the snapshot on disk unchanged,
\* makes no embedding call and does not raise.
C13_AddNothingIsNoOp ==
    [][(op' = "add_chunks" /\ query'.count = 0) =>
          /\ chunks_data' = chunks_data
          /\ metadata_index' = metadata_index
          /\ is_fitted' = is_fitted /\ vocab' = vocab
          /\ disk' = disk
          /\ embed_call' = NoCall
          /\ ~raised']_vars

\* add_chunks([]) on a store of two records whose snapshot was never
\* written, with the fallback embedder fitted.
C13_Witness ==
    /\ op = "add_chunks" /\ query.count = 0
    /\ Len(chunks_data) = 2 /\ disk.kind = "absent"
    /\ use_fallback /\ is_fitted
    /\ embed_call = NoCall

\* C14: a lookup that misses returns an empty result and does not raise:
\* search on an empty store and search or search_by_metadata under a
\* filter no record satisfies return the empty list, and get_chunk_by_id
\* of an id that is not stored returns None.
C14_MissesAreEmpty ==
    /\ (op = "search" /\ chunks_data = <<>>) =>
           (results = <<>> /\ ~raised)
    /\ (/\ op \in {"search", "search_by_metadata"}
        /\ \A i \in 1 .. Len(chunks_data) :
               ~Satisfies(chunks_data[i].metadata, query.filters)) =>
           (results = <<>> /\ ~raised)
    /\ (/\ op = "get_chunk_by_id"
        /\ query.chunk_id \notin StoredIds(chunks_data)) =>
           (results = [found |-> FALSE] /\ ~raised)

\* A search of a store of three records under a filter on a key none of
\* them has.
C14_Witness ==
    /\ op = "search" /\ Len(chunks_data) = 3
    /\ query.filters = [sector |-> Eq("Technology")]
    /\ results = <<>> /\ ~raised

C16_SingleEmbeddingUnfitNeverRaises ==
    (/\ use_fallback /\ op = "search"
     /\ embed_call.call = "generate_single_embedding"
     /\ ~embed_call.was_fitted) =>
        /\ ~raised
        /\ \/ /\ is_fitted
              /\ vocab = FitVocabulary(<<query.text>>)
              /\ embed_call.embedding = FallbackVector(query.text, vocab)
           \/ /\ ~is_fitted
              /\ embed_call.embedding = ZeroVector

\* A search that embedded its query on an unfit fallback embedder, whose
\* fit on the query failed: the query vector is the zero vector.
C16_Witness ==
    /\ use_fallback /\ op = "search" /\ ~raised
    /\ embed_call.call = "generate_single_embedding"
    /\ ~embed_call.was_fitted /\ ~is_fitted
    /\ embed_call.embedding = ZeroVector
    /\ chunks_data # <<>>

\* The texts of the records, in order
TextsOfRecords(data) == [i \in 1 .. Len(data) |-> data[i].text]

\* C17: on the fallback path a fresh VectorDB that loaded a non-empty
\* snapshot has its embedder fitted on the texts it loaded, and no search
\* embeds its query on an unfit embedder.
C17_RefitBeforeQueries ==
    /\ (use_fallback /\ op = "construct" /\ chunks_data # <<>>) =>
           (is_fitted /\ vocab = FitVocabulary(TextsOfRecords(chunks_data)))
    /\ (/\ use_fallback /\ op = "search"
        /\ embed_call.call = "generate_single_embedding") =>
           embed_call.was_fitted

(***************************************************************************)
(* Specification SpecConcurrentFit: two threads call into one VectorDB on  *)
(* the fallback path, each an add_chunks (generate_embeddings of a batch)  *)
(* or a search (generate_single_embedding of a query).  The steps of a     *)
(* thread are the statements of _generate_fallback_embeddings; the code    *)
(* takes no lock around them.                                              *)
(***************************************************************************)
storeRestVars ==
    <<chunks_data, metadata_index, envVars, disk, op, ioResult, raised,
      results, query, embed_call>>

\* The text lists the calls pass to the embedder: the texts of a batch of
\* add_chunks, or the one query of a search.
CallTexts ==
    {[i \in 1 .. Len(b) |-> b[i].content] : b \in Batches \ {<<>>}}
        \cup {<<q>> : q \in Queries}

\* The statements between the test of is_fitted and its assignment
FitSection == {"fit_tfidf", "fit_svd", "set_fitted"}

InitConcurrentFit ==
    /\ ChunkerIdle /\ clock = 0
    /\ chunks_data = <<>> /\ metadata_index = <<>>
    /\ use_fallback = TRUE /\ svd_strict \in BOOLEAN
    /\ is_fitted = FALSE /\ vocab = {}
    /\ disk = NoDisk /\ op = "none" /\ ioResult = "none" /\ raised = FALSE
    /\ embed_call = NoCall
    /\ results = <<>> /\ query = NoQuery
    /\ ThreadsIdle /\ RouterIdle /\ BatchIdle /\ SystemIdle

\* A thread enters _generate_fallback_embeddings(texts)
ThreadCall(t) ==
    /\ thread_pc[t] = "idle"
    /\ \E texts \in CallTexts :
           thread_texts' = [thread_texts EXCEPT ![t] = texts]
    /\ thread_pc' = [thread_pc EXCEPT ![t] = "check"]
    /\ UNCHANGED <<chunkerVars, clock, routerVars, batchVars, systemVars,
                   storeRestVars, is_fitted, vocab,
                   tfidf_fits, svd_fits>>

\* if not self.is_fitted
ThreadCheck(t) ==
    /\ thread_pc[t] = "check"
    /\ thread_pc' = [thread_pc EXCEPT
                        ![t] = IF is_fitted THEN "transform"
                               ELSE "fit_tfidf"]
    /\ UNCHANGED <<chunkerVars, clock, routerVars, batchVars, systemVars,
                   storeRestVars, is_fitted, vocab,
                   thread_texts, tfidf_fits, svd_fits>>

\* tfidf_matrix = self.tfidf.fit_transform(cleaned_texts); the history
\* counter stops the model after MaxFits fits.
ThreadFitTfidf(t) ==
    /\ thread_pc[t] = "fit_tfidf"
    /\ tfidf_fits < MaxFits
    /\ tfidf_fits' = tfidf_fits + 1
    /\ IF FitVocabulary(thread_texts[t]) = {}
       THEN /\ thread_pc' = [thread_pc EXCEPT ![t] = "raised"]
            /\ UNCHANGED vocab
       ELSE /\ thread_pc' = [thread_pc EXCEPT ![t] = "fit_svd"]
            /\ vocab' = FitVocabulary(thread_texts[t])
    /\ UNCHANGED <<chunkerVars, clock, routerVars, batchVars, systemVars,
                   storeRestVars, is_fitted,
                   thread_texts, svd_fits>>

\* self.svd.fit(tfidf_matrix)
ThreadFitSvd(t) ==
    /\ thread_pc[t] = "fit_svd"
    /\ svd_fits' = svd_fits + 1
    /\ thread_pc' =
           [thread_pc EXCEPT
               ![t] = IF /\ svd_strict
                         /\ Cardinality(FitVocabulary(thread_texts[t]))
                                < n_components
                      THEN "raised"
                      ELSE "set_fitted"]
    /\ UNCHANGED <<chunkerVars, clock, routerVars, batchVars, systemVars,
                   storeRestVars, is_fitted, vocab,
                   thread_texts, tfidf_fits>>

\* self.is_fitted = True
ThreadSetFitted(t) ==
    /\ thread_pc[t] = "set_fitted"
    /\ is_fitted' = TRUE
    /\ thread_pc' = [thread_pc EXCEPT ![t] = "transform"]
    /\ UNCHANGED <<chunkerVars, clock, routerVars, batchVars, systemVars,
                   storeRestVars, vocab, thread_texts,
                   tfidf_fits, svd_fits>>

\* The transform and the return of the call, or the exception leaving it;
\* the thread is free for its next call.
ThreadReturn(t) ==
    /\ thread_pc[t] \in {"transform", "raised"}
    /\ thread_pc' = [thread_pc EXCEPT ![t] = "idle"]
    /\ thread_texts' = [thread_texts EXCEPT ![t] = <<>>]
    /\ UNCHANGED <<chunkerVars, clock, routerVars, batchVars, systemVars,
                   storeRestVars, is_fitted, vocab,
                   tfidf_fits, svd_fits>>

NextConcurrentFit ==
    \E t \in Threads :
        \/ ThreadCall(t)
        \/ ThreadCheck(t)
        \/ ThreadFitTfidf(t)
        \/ ThreadFitSvd(t)
        \/ ThreadSetFitted(t)
        \/ ThreadReturn(t)

SpecConcurrentFit == InitConcurrentFit /\ [][NextConcurrentFit]_vars

\* C18: the fit path of the fallback embedder is serialized: at most one
\* thread is between the test of is_fitted and its assignment, and the
\* vectorizer and the reduction are each fit at most once.
C18_FitSerialized ==
    /\ Cardinality({t \in Threads : thread_pc[t] \in FitSection}) <= 1
    /\ tfidf_fits <= 1
    /\ svd_fits <= 1


(***************************************************************************)
(* Specification SpecRouter: QueryRouter.route_query.  A query is its      *)
(* extracted features; route_query classifies it, lays out the             *)
(* sub-searches of the retrieval policy, makes them one VectorDB.search    *)
(* call at a time and returns the truncated list.  Result lists are        *)
(* modelled by their lengths.                                              *)
(***************************************************************************)
MaxTickers == 5
MaxYears == 2
MaxHits == 50

\* COMPANIES, in the order extract_tickers happens to list them
TickerNames == <<"AAPL", "MSFT", "GOOGL", "AMZN", "TSLA", "NVDA", "META">>

\* What a query text holds, as far as the extractor can see
QueryTexts ==
    [n_tickers : 0 .. Min(MaxTickers, Len(TickerNames)),
     n_years : 0 .. MaxYears,
     relative_terms : {<<>>, <<"recent">>, <<"trend">>},
     filing_types : {<<>>, <<"10-K">>},
     financial_concepts : {<<>>, <<"revenue">>},
     comparison_keyword : BOOLEAN]

extract_tickers(q) == SubSeq(TickerNames, 1, q.n_tickers)

extract_time_periods(q) ==
    [years |-> [i \in 1 .. q.n_years |-> 2021 + i],
     relative_terms |-> q.relative_terms]

extract_comparison_intent(q) ==
    IF q.comparison_keyword
    THEN [is_comparison |-> TRUE,
          comparison_type |->
              IF \E i \in 1 .. Len(q.relative_terms) :
                     q.relative_terms[i] \in {"trend", "over time"}
              THEN "temporal"
              ELSE IF Len(extract_tickers(q)) > 1 THEN "cross_company"
              ELSE "general"]
    ELSE [is_comparison |-> FALSE, comparison_type |-> "None"]

extract_all_entities(q) ==
    [tickers |-> extract_tickers(q),
     time_periods |-> extract_time_periods(q),
     filing_types |-> q.filing_types,
     financial_concepts |-> q.financial_concepts,
     comparison_intent |-> extract_comparison_intent(q)]

\* QueryType
SINGLE_COMPANY == "single_company"
MULTI_COMPANY == "multi_company"
TEMPORAL_ANALYSIS == "temporal_analysis"
CROSS_SECTIONAL == "cross_sectional"
GENERAL_SEARCH == "general_search"

_determine_query_type_SingleFirst(e) ==
    IF Len(e.tickers) > 1 \/ e.comparison_intent.is_comparison
    THEN IF e.comparison_intent.comparison_type = "temporal"
         THEN TEMPORAL_ANALYSIS
         ELSE MULTI_COMPANY
    ELSE IF Len(e.tickers) = 1 THEN SINGLE_COMPANY
    ELSE IF e.financial_concepts # <<>> THEN CROSS_SECTIONAL
    ELSE GENERAL_SEARCH

_determine_query_type(e) ==
    IF Len(e.tickers) > 1 \/ e.comparison_intent.is_comparison
    THEN IF e.comparison_intent.comparison_type = "temporal"
         THEN TEMPORAL_ANALYSIS
         ELSE MULTI_COMPANY
    ELSE IF Len(e.tickers) = 1
            /\ (e.time_periods.years # <<>>
                \/ e.time_periods.relative_terms # <<>>)
    THEN TEMPORAL_ANALYSIS
    ELSE IF Len(e.tickers) = 1 THEN SINGLE_COMPANY
    ELSE IF e.financial_concepts # <<>> THEN CROSS_SECTIONAL
    ELSE GENERAL_SEARCH

\* The RetrievalEngine methods, as the VectorDB.search call each makes:
\* the filter values and the n_results it asks for, whether it post-filters
\* what comes back and for which year (0: none), the keyword boost of the
\* re-ranking in tenths (0: none), and where it cuts the list it returns.
\* The date range of search_with_filters is given by its year: the router
\* builds it as (f"{year}-01-01", f"{year}-12-31").
FirstOrNone(s) == IF s # <<>> THEN s[1] ELSE "None"

search_with_filters(ticker, filing_type, date_range, n_results) ==
    [via |-> "search_with_filters", ticker |-> ticker,
     filing_type |-> filing_type, n_search |-> n_results * 2,
     post_filter |-> date_range # 0, year |-> date_range,
     keyword_boost |-> 0, cut |-> n_results]

search_temporal(year) ==
    [via |-> "search_temporal", ticker |-> "None", filing_type |-> "None",
     n_search |-> 20, post_filter |-> year # 0, year |-> year,
     keyword_boost |-> 0, cut |-> 20]

hybrid_search(keyword_boost, n_results) ==
    [via |-> "hybrid_search", ticker |-> "None", filing_type |-> "None",
     n_search |-> n_results * 2, post_filter |-> FALSE, year |-> 0,
     keyword_boost |-> keyword_boost, cut |-> n_results]

\* The retrieval policies: whether laying out the sub-searches raises, the
\* sub-searches in call order, and where the merged list is cut (0: the
\* policy returns what its one sub-search returned).
_retrieve_single_company(ticker, filing_types, time_periods) ==
    [raised |-> FALSE,
     calls |-> <<search_with_filters(ticker, FirstOrNone(filing_types),
                                     IF time_periods.years # <<>>
                                     THEN time_periods.years[1] ELSE 0,
                                     15)>>,
     cut |-> 0]

_retrieve_multi_company(tickers, filing_types) ==
    IF Len(tickers) = 0
    THEN [raised |-> TRUE, calls |-> <<>>, cut |-> 20]
    ELSE LET results_per_company == Max(5, 20 \div Len(tickers))
         IN  [raised |-> FALSE,
              calls |-> [i \in 1 .. Len(tickers) |->
                            search_with_filters(tickers[i],
                                                FirstOrNone(filing_types),
                                                0, results_per_company)],
              cut |-> 20]

_retrieve_temporal(tickers, time_periods) ==
    [raised |-> FALSE,
     calls |->
         IF tickers # <<>>
         THEN IF time_periods.years # <<>>
              THEN [i \in 1 .. Len(time_periods.years) |->
                       search_temporal(time_periods.years[i])]
              ELSE <<search_with_filters(tickers[1], "None", 0, 20)>>
         ELSE <<search_temporal(0)>>,
     cut |-> 20]

_retrieve_cross_sectional(concepts) ==
    [raised |-> FALSE, calls |-> <<hybrid_search(4, 25)>>, cut |-> 0]

_retrieve_general ==
    [raised |-> FALSE, calls |-> <<hybrid_search(3, 15)>>, cut |-> 0]

_retrieve_relevant_documents(e, qt) ==
    IF qt = SINGLE_COMPANY
    THEN _retrieve_single_company(e.tickers[1], e.filing_types, e.time_periods)
    ELSE IF qt = MULTI_COMPANY
    THEN _retrieve_multi_company(e.tickers, e.filing_types)
    ELSE IF qt = TEMPORAL_ANALYSIS
    THEN _retrieve_temporal(e.tickers, e.time_periods)
    ELSE IF qt = CROSS_SECTIONAL
    THEN _retrieve_cross_sectional(e.financial_concepts)
    ELSE _retrieve_general

\* How many records of the collection a VectorDB.search call can match, and
\* how many of the returned ones pass a date or year post-filter
HitCounts == {0, 1, MaxHits}

\* The length of the list a sub-search hands back: VectorDB.search returns
\* at most n_results, the post-filter keeps part of it, the method cuts it.
SubSearchLength(call, hits, dated) ==
    LET found == Min(hits, call.n_search)
        kept == IF call.post_filter THEN Min(found, dated) ELSE found
    IN  Min(kept, call.cut)

InitRouter ==
    /\ ChunkerIdle /\ clock = 0 /\ StoreIdle /\ ThreadsIdle /\ RouterIdle
    /\ BatchIdle /\ SystemIdle

\* route_query(query) up to the first sub-search of the retrieval; the router
\* keeps nothing between queries, so a behaviour follows one query.
RouteQuery ==
    /\ router_pc = "idle"
    /\ \E q \in QueryTexts :
           LET e == extract_all_entities(q)
               qt == _determine_query_type(e)
               policy == _retrieve_relevant_documents(e, qt)
           IN  /\ entities' = e
               /\ query_type' = qt
               /\ route_raised' = policy.raised
               /\ pending' = policy.calls
               /\ router_pc' = IF policy.raised THEN "done" ELSE "retrieve"
    /\ all_results' = 0 /\ search_calls' = 0 /\ relevant_docs' = 0
    /\ UNCHANGED <<sub_results, documents>>
    /\ UNCHANGED <<chunkerVars, clock, storeVars, threadVars, batchVars,
                   systemVars>>

\* The next sub-search of the policy: one call of VectorDB.search
SubSearch ==
    /\ router_pc = "retrieve" /\ pending # <<>>
    /\ \E hits \in HitCounts :
       \E dated \in IF Head(pending).post_filter THEN HitCounts ELSE {0} :
           all_results' = all_results + SubSearchLength(Head(pending), hits, dated)
    /\ search_calls' = search_calls + 1
    /\ pending' = Tail(pending)
    /\ UNCHANGED <<chunkerVars, clock, storeVars, threadVars, batchVars,
                   systemVars, sub_results, documents, entities,
                   query_type, router_pc, route_raised, relevant_docs>>

\* The policy returns its list, cut to its length
ReturnDocuments ==
    /\ router_pc = "retrieve" /\ pending = <<>>
    /\ LET cut == _retrieve_relevant_documents(entities, query_type).cut
       IN  relevant_docs' = IF cut = 0 THEN all_results ELSE Min(all_results, cut)
    /\ router_pc' = "done"
    /\ UNCHANGED <<chunkerVars, clock, storeVars, threadVars, batchVars,
                   systemVars, sub_results, documents, entities,
                   query_type, pending, all_results, search_calls, route_raised>>

NextRouter == RouteQuery \/ SubSearch \/ ReturnDocuments

SpecRouter == InitRouter /\ [][NextRouter]_vars

\* C19 (as stated): the query shape follows the priority order: more than
\* one ticker or comparison intent is multi-company, else one ticker with a
\* year or a relative term is temporal, else one ticker is single-company,
\* else a financial concept is cross-sectional, else general.
C19_PriorityOrder ==
    router_pc # "idle" =>
        LET e == entities
        IN  query_type =
                IF Len(e.tickers) > 1 \/ e.comparison_intent.is_comparison
                THEN "multi_company"
                ELSE IF Len(e.tickers) = 1
                        /\ (e.time_periods.years # <<>>
                            \/ e.time_periods.relative_terms # <<>>)
                THEN "temporal_analysis"
                ELSE IF Len(e.tickers) = 1 THEN "single_company"
                ELSE IF e.financial_concepts # <<>> THEN "cross_sectional"
                ELSE "general_search"

\* C19 (amended): the query shape is a function of the entities alone: more
\* than one ticker or comparison intent is temporal when the comparison type
\* is temporal and multi-company otherwise; else one ticker with a year or a
\* relative term is temporal; else one ticker is single-company; else a
\* financial concept is cross-sectional; else general.
C19_PriorityOrderTemporalComparison ==
    router_pc # "idle" =>
        LET e == entities
            several == Len(e.tickers) > 1 \/ e.comparison_intent.is_comparison
            one == ~several /\ Len(e.tickers) = 1
            timed == e.time_periods.years # <<>>
                     \/ e.time_periods.relative_terms # <<>>
        IN  /\ several /\ e.comparison_intent.comparison_type = "temporal"
                => query_type = "temporal_analysis"
            /\ several /\ e.comparison_intent.comparison_type # "temporal"
                => query_type = "multi_company"
            /\ one /\ timed => query_type = "temporal_analysis"
            /\ one /\ ~timed => query_type = "single_company"
            /\ ~several /\ ~one /\ e.financial_concepts # <<>>
                => query_type = "cross_sectional"
            /\ ~several /\ ~one /\ e.financial_concepts = <<>>
                => query_type = "general_search"

C19_Witness ==
    /\ router_pc = "done"
    /\ Len(entities.tickers) > 1
    /\ entities.comparison_intent.is_comparison
    /\ entities.comparison_intent.comparison_type = "temporal"
    /\ query_type = "temporal_analysis"

\* The result budget of each query shape
Budget(qt) ==
    IF qt = SINGLE_COMPANY THEN 15
    ELSE IF qt = MULTI_COMPANY THEN 20
    ELSE IF qt = TEMPORAL_ANALYSIS THEN 20
    ELSE IF qt = CROSS_SECTIONAL THEN 25
    ELSE 15

\* C20: whatever the shape and the entities, the retrieval of a routed
\* query ends without raising, after at least one call of VectorDB.search,
\* with a list no longer than the budget of the shape.
C20_RetrievalCompletes ==
    router_pc = "done" =>
        /\ ~route_raised
        /\ search_calls >= 1
        /\ relevant_docs <= Budget(query_type)

(***************************************************************************)
(* Properties of the score combination of search                           *)
(***************************************************************************)
\* The combined score, in tenths of ScoreUnit, that search gives a stored
\* record for the query it served: the weights follow use_fallback.
ServedScore(chunk) ==
    LET semantic_score ==
            Max(0, _cosine_similarity(embed_call.embedding, chunk.embedding))
        keyword_score ==
            _calculate_enhanced_keyword_score(
                chunk.text, _extract_meaningful_words(query.text))
    IN  IF use_fallback
        THEN 4 * semantic_score + 6 * keyword_score
        ELSE 7 * semantic_score + 3 * keyword_score

\* The threshold, in tenths of ScoreUnit: 0.05 on the fallback, 0.1 otherwise
ServedThreshold == IF use_fallback THEN (5 * ScoreUnit) \div 10 ELSE ScoreUnit

\* The records the filter of the served search admits
ServedCandidates ==
    {i \in 1 .. Len(chunks_data) :
        Satisfies(chunks_data[i].metadata, query.filters)}

ServedSearch ==
    /\ op = "search" /\ ~raised
    /\ embed_call.call = "generate_single_embedding"

\* C24 (as stated): search scores with the weights of the path, keeps
\* exactly the candidates whose combined score is at least the threshold,
\* and returns the top min(limit, kept) of them.
C24_KeepsAtOrAboveThreshold ==
    ServedSearch =>
        LET kept == {i \in ServedCandidates :
                        ServedScore(chunks_data[i]) >= ServedThreshold}
        IN  /\ Len(results) = Min(query.n_results, Cardinality(kept))
            /\ \A r \in 1 .. Len(results) :
                   \E i \in kept :
                       /\ results[r].chunk_id = chunks_data[i].chunk_id
                       /\ results[r].text = chunks_data[i].text
                       /\ results[r].similarity = ServedScore(chunks_data[i])
            /\ \A i \in kept :
                   \/ \E r \in 1 .. Len(results) :
                          /\ results[r].chunk_id = chunks_data[i].chunk_id
                          /\ results[r].text = chunks_data[i].text
                   \/ /\ Len(results) = query.n_results
                      /\ ServedScore(chunks_data[i])
                             <= results[Len(results)].similarity

\* C24 (amended): search scores with the weights of the path, keeps exactly
\* the candidates whose combined score is strictly above the threshold (a
\* candidate whose score equals the threshold is dropped), and returns the
\* top min(limit, kept) of them.
C24_KeepsAboveThreshold ==
    ServedSearch =>
        LET kept == {i \in ServedCandidates :
                        ServedScore(chunks_data[i]) > ServedThreshold}
        IN  /\ Len(results) = Min(query.n_results, Cardinality(kept))
            /\ \A r \in 1 .. Len(results) :
                   \E i \in kept :
                       /\ results[r].chunk_id = chunks_data[i].chunk_id
                       /\ results[r].text = chunks_data[i].text
                       /\ results[r].similarity = ServedScore(chunks_data[i])
            /\ \A i \in kept :
                   \/ \E r \in 1 .. Len(results) :
                          /\ results[r].chunk_id = chunks_data[i].chunk_id
                          /\ results[r].text = chunks_data[i].text
                   \/ /\ Len(results) = query.n_results
                      /\ ServedScore(chunks_data[i])
                             <= results[Len(results)].similarity

\* A search with the sentence encoder, within its limit, over three
\* records of which two score exactly the threshold and one scores below
\* it: none is returned.
C24_Witness ==
    /\ ServedSearch /\ ~use_fallback
    /\ query.filters = <<>> /\ Len(chunks_data) = 3
    /\ Cardinality({i \in 1 .. 3 :
                       ServedScore(chunks_data[i]) = ServedThreshold}) = 2
    /\ \E i \in 1 .. 3 : ServedScore(chunks_data[i]) < ServedThreshold
    /\ results = <<>> /\ query.n_results = MaxResults

(***************************************************************************)
(* Properties of the full resets                                           *)
(***************************************************************************)
\* C28: a fresh VectorDB constructed right after delete_collection or
\* reset_collection, over the same collection name and storage path, is
\* empty: the removed records do not reappear.
C28_ResetSurvivesReload ==
    [][(op \in {"delete_collection", "reset_collection"}
        /\ op' = "construct") =>
          /\ chunks_data' = <<>>
          /\ metadata_index' = <<>>]_vars

(***************************************************************************)
(* Properties of the fit behind the stored vectors                         *)
(***************************************************************************)
\* C27: on the fallback path, whenever a search is served by a fitted
\* embedder, the stored vector of every record comes from the fit that
\* embeds the query: it is the vector that fit gives the record's text.
C27_StoredAndQueryVectorsShareFit ==
    (/\ use_fallback /\ op = "search" /\ is_fitted
     /\ embed_call.call = "generate_single_embedding") =>
        \A i \in 1 .. Len(chunks_data) :
            chunks_data[i].embedding
                = FallbackVector(chunks_data[i].text, vocab)

(***************************************************************************)
(* Specification SpecBatch: DocumentChunker.chunk_multiple_files, one      *)
(* step per iteration of its loop over the files.  A file is its name,     *)
(* what reading and parsing it does, and its text.                         *)
(***************************************************************************)
MaxFiles == 3

FilingText(nWords, phrases) ==
    [nWords |-> nWords, wordLen |-> 20, xbrl |-> 0, phrases |-> phrases,
     content_types |-> <<"governance">>]

\* The files of a batch: two filings that chunk, one too short to pass the
\* validation, one that parse_file cannot read, one on which chunk_file
\* raises.
BatchFiles ==
    {[filename |-> <<"AAPL", "10-K", "20230101">>, parse |-> "ok",
      text |-> FilingText(MinWords, {"annual report", "risk factors",
                                     "item 1", "part i", "part ii"})],
     [filename |-> <<"AAPL", "5", "20230101", "amended">>, parse |-> "ok",
      text |-> FilingText(MaxWords, {"securities beneficially owned",
                                     "securities"})],
     [filename |-> <<"AAPL", "10-K", "20230101">>, parse |-> "ok",
      text |-> FilingText(MinWords - 1, {"annual report", "risk factors",
                                         "item 1", "part i", "part ii"})],
     [filename |-> <<"notes">>, parse |-> "error", text |-> NoDoc.text],
     [filename |-> <<"notes">>, parse |-> "raises", text |-> NoDoc.text]}

FileLists == UNION {[1 .. n -> BatchFiles] : n \in 0 .. MaxFiles}

\* chunk_file(filepath): [] when parse_file reports an error, else the
\* chunks of the parsed text
chunk_file(f, size, ov, now, seed) ==
    IF f.parse = "error" THEN <<>>
    ELSE _create_chunks(f.text, BaseMetadata(f), size, ov, now, seed)

\* The chunks of a file are put in front of those gathered so far.
ExtendChunks_AtFront(gathered, file_chunks) == file_chunks \o gathered

\* all_chunks.extend(file_chunks)
ExtendChunks(gathered, file_chunks) == gathered \o file_chunks

InitBatch ==
    /\ chunk_size = 50 /\ overlap = 5
    /\ doc = NoDoc /\ LoopIdle /\ RunsIdle /\ clock = 0
    /\ StoreIdle /\ ThreadsIdle /\ RouterIdle /\ SystemIdle /\ BatchIdle

\* chunk_multiple_files(filepaths) up to the loop
ChunkMultipleFiles ==
    /\ batch_pc = "idle"
    /\ filepaths' \in FileLists
    /\ batch_pc' = "loop"
    /\ UNCHANGED <<chunkerVars, clock, storeVars, threadVars, routerVars,
                   systemVars, file_i, all_chunks, processed_count,
                   skipped_count, error_count, interrupted>>

\* One iteration of the loop: chunk_file on the next file
ProcessFile ==
    /\ batch_pc = "loop" /\ file_i < Len(filepaths)
    /\ LET f == filepaths[file_i + 1]
           file_chunks == chunk_file(f, chunk_size, overlap, clock, hash_seed)
       IN  IF f.parse = "raises"
           THEN /\ error_count' = error_count + 1
                /\ UNCHANGED <<all_chunks, processed_count, skipped_count>>
           ELSE IF file_chunks # <<>>
           THEN /\ all_chunks' = ExtendChunks(all_chunks, file_chunks)
                /\ processed_count' = processed_count + 1
                /\ UNCHANGED <<skipped_count, error_count>>
           ELSE /\ skipped_count' = skipped_count + 1
                /\ UNCHANGED <<all_chunks, processed_count, error_count>>
    /\ file_i' = file_i + 1
    /\ UNCHANGED <<chunkerVars, clock, storeVars, threadVars, routerVars,
                   systemVars, filepaths, batch_pc, interrupted>>

\* KeyboardInterrupt during an iteration: the loop is left and what was
\* gathered is returned
InterruptBatch ==
    /\ batch_pc = "loop" /\ file_i < Len(filepaths)
    /\ interrupted' = TRUE
    /\ batch_pc' = "done"
    /\ UNCHANGED <<chunkerVars, clock, storeVars, threadVars, routerVars,
                   systemVars, filepaths, file_i, all_chunks,
                   processed_count, skipped_count, error_count>>

\* return all_chunks
ReturnChunks ==
    /\ batch_pc = "loop" /\ file_i = Len(filepaths)
    /\ batch_pc' = "done"
    /\ UNCHANGED <<chunkerVars, clock, storeVars, threadVars, routerVars,
                   systemVars, filepaths, file_i, all_chunks,
                   processed_count, skipped_count, error_count, interrupted>>

NextBatch ==
    ChunkMultipleFiles \/ ProcessFile \/ InterruptBatch \/ ReturnChunks

SpecBatch == InitBatch /\ [][NextBatch]_vars

\* The chunks of the files of fs that produce chunks, file after file
RECURSIVE ChunksInInputOrder(_)
ChunksInInputOrder(fs) ==
    IF fs = <<>> THEN <<>>
    ELSE (IF Head(fs).parse = "raises" THEN <<>>
          ELSE chunk_file(Head(fs), chunk_size, overlap, clock, hash_seed))
             \o ChunksInInputOrder(Tail(fs))

\* C22: a call of chunk_multiple_files that no KeyboardInterrupt ends has
\* attempted every file when it returns, whatever failed on the way; the
\* list it returns is the concatenation, in input order, of the chunks of
\* the files that produced chunks; and processed + skipped + errored is the
\* number of files.
C22_BatchContinuesPastFailures ==
    (batch_pc = "done" /\ ~interrupted) =>
        /\ file_i = Len(filepaths)
        /\ all_chunks = ChunksInInputOrder(filepaths)
        /\ processed_count + skipped_count + error_count = Len(filepaths)

\* A returned batch of three files: the first raises, the second is
\* rejected by the validation, the third is chunked.
C22_Witness ==
    /\ batch_pc = "done" /\ ~interrupted
    /\ Len(filepaths) = 3
    /\ filepaths[1].parse = "raises"
    /\ filepaths[2].text.nWords = MinWords - 1
    /\ error_count = 1 /\ skipped_count = 1 /\ processed_count = 1
    /\ Len(all_chunks) >= 2

(***************************************************************************)
(* Specification SpecSystem: SECFilingsQA.  The instance owns a VectorDB   *)
(* (chunks_data, metadata_index, the embedder, the snapshot on disk) and a *)
(* QueryRouter whose RetrievalEngine constructs a VectorDB of its own      *)
(* (router_data) over the same snapshot file.                              *)
(***************************************************************************)
MaxQueries == 2

\* The questions of the model: one company, a comparison that names no
\* company, and a general question
SystemQuestions ==
    {[n_tickers |-> 1, n_years |-> 0, relative_terms |-> <<>>,
      filing_types |-> <<>>, financial_concepts |-> <<"revenue">>,
      comparison_keyword |-> FALSE],
     [n_tickers |-> 0, n_years |-> 0, relative_terms |-> <<>>,
      filing_types |-> <<>>, financial_concepts |-> <<"revenue">>,
      comparison_keyword |-> TRUE],
     [n_tickers |-> 0, n_years |-> 0, relative_terms |-> <<>>,
      filing_types |-> <<>>, financial_concepts |-> <<>>,
      comparison_keyword |-> FALSE]}

\* What the language model call of the synthesizer reports
LlmOutcomes == {"success", "error"}

\* The result dicts of query, by their answer, confidence (in ScoreUnit),
\* sources and status
NotReadyAnswer ==
    [answer |-> "[ERROR] System not initialized",
     confidence |-> 0, sources |-> 0, status |-> "system_not_ready"]

ErrorAnswer ==
    [answer |-> "I encountered an error", confidence |-> 0, sources |-> 0,
     status |-> "error"]

\* synthesize_answer(query_analysis) on n_docs relevant documents
synthesize_answer(n_docs, llm) ==
    IF n_docs = 0
    THEN [answer |-> "I couldn't find relevant information",
          confidence |-> 0, sources |-> 0, status |-> "no_relevant_docs"]
    ELSE IF llm # "success"
    THEN [answer |-> "llm failure", confidence |-> 0, sources |-> 0,
          status |-> "llm_error"]
    ELSE [answer |-> "processed answer", confidence |-> ScoreUnit,
          sources |-> n_docs, status |-> "success"]

\* query(question) without the test of system_ready.
SECFilingsQA_query_Unguarded(q, ready, n_docs, llm) ==
    LET e == extract_all_entities(q)
        policy == _retrieve_relevant_documents(e, _determine_query_type(e))
    IN  IF policy.raised
        THEN [routed |-> TRUE, synthesized |-> FALSE, answer |-> ErrorAnswer]
        ELSE [routed |-> TRUE, synthesized |-> TRUE,
              answer |-> synthesize_answer(n_docs, llm)]

\* query(question): whether the router and the synthesizer are called, and
\* the dict returned; n_docs is the number of documents the router finds
SECFilingsQA_query(q, ready, n_docs, llm) ==
    IF ~ready
    THEN [routed |-> FALSE, synthesized |-> FALSE, answer |-> NotReadyAnswer]
    ELSE LET e == extract_all_entities(q)
             policy == _retrieve_relevant_documents(e,
                                                    _determine_query_type(e))
         IN  IF policy.raised
             THEN [routed |-> TRUE, synthesized |-> FALSE,
                   answer |-> ErrorAnswer]
             ELSE [routed |-> TRUE, synthesized |-> TRUE,
                   answer |-> synthesize_answer(n_docs, llm)]

InitSystem ==
    /\ ChunkerIdle /\ clock = 0 /\ ThreadsIdle /\ RouterIdle /\ BatchIdle
    /\ chunks_data = <<>> /\ metadata_index = <<>>
    /\ use_fallback \in BOOLEAN
    /\ svd_strict \in IF use_fallback THEN BOOLEAN ELSE {FALSE}
    /\ is_fitted = FALSE /\ vocab = {}
    /\ disk = NoDisk /\ op = "none" /\ ioResult = "none" /\ raised = FALSE
    /\ embed_call = NoCall /\ results = <<>> /\ query = NoQuery
    /\ SystemIdle

\* setup_system, steps 1 and 2: the download, then _process_documents sets
\* self.chunks to what chunk_multiple_files returns.  A download that
\* raises ends setup_system.
ProcessDocuments ==
    /\ sys_pc = "new"
    /\ \/ /\ sys_pc' = "failed"
          /\ UNCHANGED self_chunks
       \/ /\ sys_pc' = "processed"
          /\ \E new_chunks \in Batches :
                /\ Len(chunks_data) + Len(new_chunks) <= MaxRecords
                /\ self_chunks' = new_chunks
    /\ UNCHANGED <<chunkerVars, clock, storeVars, threadVars, routerVars,
                   batchVars, system_ready, router_data, router_calls,
                   synth_calls, answer>>

\* setup_system, step 3 to the end: self.vector_db.add_chunks(self.chunks),
\* then system_ready = True.  add_chunks that raises ends setup_system.
BuildVectorDatabase ==
    /\ sys_pc = "processed"
    /\ IF ReturnsEarly(self_chunks)
       THEN /\ system_ready' = TRUE /\ sys_pc' = "ready"
            /\ UNCHANGED <<chunks_data, metadata_index, is_fitted, vocab,
                           disk>>
       ELSE \E outcome \in SaveOutcomes :
            LET texts == [i \in 1 .. Len(self_chunks) |->
                             self_chunks[i].content]
                gen == generate_embeddings(texts, use_fallback, is_fitted,
                                           vocab, svd_strict)
                data == AppendRecords(chunks_data,
                                      NewRecords(self_chunks, gen.embeddings,
                                                 clock))
                index == IndexChunks(metadata_index, self_chunks,
                                     Len(chunks_data))
            IN  /\ is_fitted' = gen.is_fitted /\ vocab' = gen.vocab
                /\ IF gen.raised
                   THEN /\ sys_pc' = "failed"
                        /\ UNCHANGED <<system_ready, chunks_data,
                                       metadata_index, disk>>
                   ELSE /\ chunks_data' = data
                        /\ metadata_index' = index
                        /\ disk' = _save_to_disk(disk, data, index, clock,
                                                 outcome)
                        /\ system_ready' = TRUE /\ sys_pc' = "ready"
    /\ UNCHANGED <<chunkerVars, clock, envVars, op, ioResult, raised, results,
                   query, embed_call, threadVars, routerVars, batchVars,
                   self_chunks, router_data, router_calls, synth_calls,
                   answer>>

\* query(question); the router searches the VectorDB of its own
\* RetrievalEngine
Query ==
    /\ router_calls < MaxQueries
    /\ \E q \in SystemQuestions, llm \in LlmOutcomes :
       \E n_docs \in {0, Len(router_data)} :
           LET outcome == SECFilingsQA_query(q, system_ready, n_docs, llm)
           IN  /\ answer' = outcome.answer
               /\ router_calls' = router_calls
                                      + (IF outcome.routed THEN 1 ELSE 0)
               /\ synth_calls' = synth_calls
                                     + (IF outcome.synthesized THEN 1 ELSE 0)
    /\ UNCHANGED <<chunkerVars, clock, storeVars, threadVars, routerVars,
                   batchVars, system_ready, sys_pc, self_chunks,
                   router_data>>

\* The process ends and a new one constructs SECFilingsQA(): VectorDB() and
\* the VectorDB() of the router's RetrievalEngine each load the snapshot.
Restart ==
    LET loaded == _load_from_disk(disk, use_fallback, svd_strict)
    IN  /\ chunks_data' = loaded.chunks_data
        /\ metadata_index' = loaded.metadata_index
        /\ is_fitted' = loaded.is_fitted /\ vocab' = loaded.vocab
        /\ router_data' = loaded.chunks_data
        /\ system_ready' = FALSE /\ sys_pc' = "new" /\ self_chunks' = <<>>
        /\ router_calls' = 0 /\ synth_calls' = 0 /\ answer' = NoAnswer
        /\ UNCHANGED <<chunkerVars, clock, envVars, disk, op, ioResult,
                       raised, results, query, embed_call, threadVars,
                       routerVars, batchVars>>

NextSystem == ProcessDocuments \/ BuildVectorDatabase \/ Query \/ Restart

SpecSystem == InitSystem /\ [][NextSystem]_vars

\* C23: as long as setup_system has not completed on the instance, the
\* router and the synthesizer have not been called, and what query
\* returned has the keys answer, confidence, sources and status, with
\* status system_not_ready, confidence 0.0 and no sources.
C23_NotReadyAnswer ==
    ~system_ready =>
        /\ router_calls = 0 /\ synth_calls = 0
        /\ answer # NoAnswer =>
               /\ {"answer", "confidence", "sources", "status"}
                      \subseteq DOMAIN answer
               /\ answer.status = "system_not_ready"
               /\ answer.confidence = 0
               /\ answer.sources = 0

\* A query answered on an instance whose setup_system raised, over a
\* store that holds records of an earlier run.
C23_Witness ==
    /\ ~system_ready /\ sys_pc = "failed"
    /\ router_data # <<>> /\ chunks_data # <<>>
    /\ answer = NotReadyAnswer

\* C26: once setup_system has returned, the VectorDB the router searches
\* holds the records of the VectorDB that add_chunks wrote to, and with
\* them every chunk setup_system added.
C26_RouterSearchesWhatSetupAdded ==
    system_ready =>
        /\ router_data = chunks_data
        /\ \A i \in 1 .. Len(self_chunks) :
               self_chunks[i].chunk_id \in StoredIds(router_data)

(***************************************************************************)
(* Dates as the strings the code compares.  A string is the sequence of    *)
(* its character codes: '0'..'9' are 48..57 and '-' is 45.                 *)
(***************************************************************************)
DigitChar(d) == 48 + d

\* str(year) and f"{year}"
YearChars(year) ==
    <<DigitChar(year \div 1000), DigitChar((year \div 100) % 10),
      DigitChar((year \div 10) % 10), DigitChar(year % 10)>>

TwoDigitChars(n) == <<DigitChar(n \div 10), DigitChar(n % 10)>>

\* The day each filing date of the model names
DateParts ==
    [d \in {"20220315", "20230101", "20240101"} |->
        IF d = "20220315" THEN <<2022, 3, 15>>
        ELSE IF d = "20230101" THEN <<2023, 1, 1>>
        ELSE <<2024, 1, 1>>]

\* The characters of a stored filing_date: the date part of the file name,
\* which download_filing writes as YYYYMMDD
FilingDateChars(d) ==
    YearChars(DateParts[d][1]) \o TwoDigitChars(DateParts[d][2])
        \o TwoDigitChars(DateParts[d][3])

\* a <= b on Python strings
RECURSIVE StrLessEq(_, _)
StrLessEq(a, b) ==
    IF a = <<>> THEN TRUE
    ELSE IF b = <<>> THEN FALSE
    ELSE IF Head(a) # Head(b) THEN Head(a) < Head(b)
    ELSE StrLessEq(Tail(a), Tail(b))

\* a.startswith(prefix)
StartsWith(a, prefix) ==
    /\ Len(prefix) <= Len(a)
    /\ SubSeq(a, 1, Len(prefix)) = prefix

\* The date range _retrieve_single_company builds for a year:
\* (f"{year}-01-01", f"{year}-12-31")
DateRangeOfYear(year) ==
    [start_date |-> YearChars(year) \o <<45, 48, 49, 45, 48, 49>>,
     end_date |-> YearChars(year) \o <<45, 49, 50, 45, 51, 49>>]

\* _filter_by_date_range(results, date_range)
_filter_by_date_range(rs, date_range) ==
    SelectSeq(rs,
        LAMBDA r :
            /\ "filing_date" \in DOMAIN r.metadata
            /\ StrLessEq(date_range.start_date,
                         FilingDateChars(r.metadata.filing_date))
            /\ StrLessEq(FilingDateChars(r.metadata.filing_date),
                         date_range.end_date))

\* Results without a filing date are dropped as well.
_filter_by_temporal_criteria_DatedOnly(rs, year) ==
    SelectSeq(rs,
        LAMBDA r :
            /\ "filing_date" \in DOMAIN r.metadata
            /\ StartsWith(FilingDateChars(r.metadata.filing_date),
                          YearChars(year)))

\* _filter_by_temporal_criteria(results, year, quarter) with quarter None:
\* a result is dropped when it has a filing date that does not start with
\* the year
_filter_by_temporal_criteria(rs, year) ==
    SelectSeq(rs,
        LAMBDA r :
            ~(/\ year # 0
              /\ "filing_date" \in DOMAIN r.metadata
              /\ ~StartsWith(FilingDateChars(r.metadata.filing_date),
                             YearChars(year))))

(***************************************************************************)
(* Specification SpecRetrieval: the retrieval policies of the router run   *)
(* against the records of the VectorDB its RetrievalEngine owns, one       *)
(* sub-search at a time, with the result lists themselves.                 *)
(***************************************************************************)
\* str.upper() on a ticker
Upper(t) == IF t = "aapl" THEN "AAPL" ELSE t

\* The filings of the collection: for each of five companies a 10-K filed
\* in 2022 and a 10-Q filed in 2023, and a file whose name has no ticker
\* and no date
CorpusFileNames ==
    <<<<"AAPL", "10-K", "20220315">>, <<"AAPL", "10-Q", "20230101">>,
      <<"MSFT", "10-K", "20220315">>, <<"MSFT", "10-Q", "20230101">>,
      <<"GOOGL", "10-K", "20220315">>, <<"GOOGL", "10-Q", "20230101">>,
      <<"AMZN", "10-K", "20220315">>, <<"AMZN", "10-Q", "20230101">>,
      <<"TSLA", "10-K", "20220315">>, <<"TSLA", "10-Q", "20230101">>,
      <<"notes">>>>

\* The texts of the chunks of a filing, by chunk index
CorpusTexts ==
    <<<<"the", "revenue">>, <<"revenues", "debt">>, <<"Apple", "revenue">>>>

\* The chunks of the collection in the order they were added: three of
\* each filing, one of the unnamed file
CorpusChunks ==
    [k \in 1 .. (3 * (Len(CorpusFileNames) - 1) + 1) |->
        StoreChunk(CorpusFileNames[((k - 1) \div 3) + 1], (k - 1) % 3,
                   CorpusTexts[((k - 1) % 3) + 1], <<>>)]

\* chunks_data after add_chunks(CorpusChunks) with the sentence encoder
RetrievalCorpus ==
    NewRecords(CorpusChunks,
               [k \in 1 .. Len(CorpusChunks) |->
                   Encode(CorpusChunks[k].content)],
               0)

\* The text of the routed query
RetrievalQuery == <<"the", "revenue">>

\* The filters search_with_filters hands to VectorDB.search
EngineFilters(call) ==
    (IF call.ticker # "None"
     THEN [ticker |-> Eq(Upper(call.ticker))] ELSE <<>>)
        @@ (IF call.filing_type # "None"
            THEN [filing_type |-> Eq(call.filing_type)] ELSE <<>>)

\* self.vector_db.search(query, n_results, filters) of an engine method
EngineSearch(call, data, q) ==
    search(data, q, call.n_search, EngineFilters(call), Encode(q), FALSE)

\* _extract_keywords(query) of the RetrievalEngine
_extract_keywords_of_query(q) ==
    SelectSeq([i \in 1 .. Len(q) |-> Lower(q[i])],
              LAMBDA w :
                  /\ w \notin {"the", "a", "an", "and", "or", "but", "in",
                               "on", "at", "to", "for", "of", "with", "by",
                               "what", "how", "when", "where", "why"}
                  /\ TokenLen(w) > 2)

\* _calculate_keyword_score(text, keywords), in ScoreUnit
_calculate_keyword_score(text, keywords) ==
    IF keywords = <<>> THEN 0
    ELSE (Cardinality({i \in 1 .. Len(keywords) :
                          PartialMatch(keywords[i], text)}) * ScoreUnit)
             \div Len(keywords)

\* sort(key=combined_score, reverse=True), stable
RECURSIVE SortByCombinedScore(_)
SortByCombinedScore(rs) ==
    IF Len(rs) <= 1 THEN rs
    ELSE LET sorted == SortByCombinedScore(SubSeq(rs, 1, Len(rs) - 1))
             last == rs[Len(rs)]
         IN  SelectSeq(sorted,
                       LAMBDA r : r.combined_score >= last.combined_score)
                 \o <<last>>
                 \o SelectSeq(sorted,
                       LAMBDA r : r.combined_score < last.combined_score)

\* The re-ranking of hybrid_search: combined_score, in hundredths of
\* ScoreUnit, from the similarity and the keyword score
Rerank(rs, q, keyword_boost) ==
    SortByCombinedScore(
        [i \in 1 .. Len(rs) |->
            rs[i] @@ [combined_score |->
                         rs[i].similarity * (10 - keyword_boost)
                             + _calculate_keyword_score(
                                   rs[i].text, _extract_keywords_of_query(q))
                                   * 10 * keyword_boost]])

\* One engine method from its VectorDB.search call to the list it returns
RunSubSearch(call, data, q) ==
    LET found == EngineSearch(call, data, q)
    IN  IF call.via = "search_with_filters"
        THEN Truncate(IF call.post_filter
                      THEN _filter_by_date_range(found,
                                                 DateRangeOfYear(call.year))
                      ELSE found,
                      call.cut)
        ELSE IF call.via = "search_temporal"
        THEN IF call.post_filter
             THEN _filter_by_temporal_criteria(found, call.year)
             ELSE found
        ELSE Truncate(Rerank(found, q, call.keyword_boost), call.cut)

\* all_results.extend(...) over the sub-results, in call order
RECURSIVE Concatenate(_)
Concatenate(lists) ==
    IF lists = <<>> THEN <<>>
    ELSE Head(lists) \o Concatenate(Tail(lists))

\* The merged list is cut without being sorted.
MergeResults_Unsorted(qt, lists) ==
    IF qt \in {MULTI_COMPANY, TEMPORAL_ANALYSIS}
    THEN Truncate(Concatenate(lists), 20)
    ELSE Concatenate(lists)

\* What the policy returns from the lists of its sub-searches
MergeResults(qt, lists) ==
    IF qt = MULTI_COMPANY
    THEN Truncate(SortBySimilarity(Concatenate(lists)), 20)
    ELSE IF qt = TEMPORAL_ANALYSIS
    THEN Truncate(Concatenate(lists), 20)
    ELSE Concatenate(lists)

InitRetrieval ==
    /\ ChunkerIdle /\ clock = 0 /\ StoreIdle /\ ThreadsIdle /\ RouterIdle
    /\ BatchIdle
    /\ system_ready = FALSE /\ sys_pc = "new" /\ self_chunks = <<>>
    /\ router_data = RetrievalCorpus
    /\ router_calls = 0 /\ synth_calls = 0 /\ answer = NoAnswer

\* route_query(query) up to the first sub-search of the retrieval
RouteRetrieval ==
    /\ router_pc = "idle"
    /\ \E q \in QueryTexts :
           LET e == extract_all_entities(q)
               qt == _determine_query_type(e)
               policy == _retrieve_relevant_documents(e, qt)
           IN  /\ entities' = e
               /\ query_type' = qt
               /\ route_raised' = policy.raised
               /\ pending' = policy.calls
               /\ router_pc' = IF policy.raised THEN "done" ELSE "retrieve"
    /\ UNCHANGED <<chunkerVars, clock, storeVars, threadVars, batchVars,
                   systemVars, all_results, search_calls, relevant_docs,
                   sub_results, documents>>

\* _retrieve_single_company(query, ticker, filing_types, time_periods)
\* called with a named year, up to its sub-search.  route_query never makes
\* this call: _determine_query_type sends a query with one ticker and a
\* year to the temporal policy.
RetrieveSingleCompany ==
    /\ router_pc = "idle"
    /\ \E t \in {"AAPL", "MSFT"}, ft \in {<<>>, <<"10-K">>},
          n \in 1 .. MaxYears :
           LET tp == [years |-> <<2021 + n>>, relative_terms |-> <<>>]
               policy == _retrieve_single_company(t, ft, tp)
           IN  /\ entities' = [tickers |-> <<t>>,
                               time_periods |-> tp,
                               filing_types |-> ft,
                               financial_concepts |-> <<>>,
                               comparison_intent |->
                                   [is_comparison |-> FALSE,
                                    comparison_type |-> "None"]]
               /\ query_type' = SINGLE_COMPANY
               /\ route_raised' = policy.raised
               /\ pending' = policy.calls
               /\ router_pc' = "retrieve"
    /\ UNCHANGED <<chunkerVars, clock, storeVars, threadVars, batchVars,
                   systemVars, all_results, search_calls, relevant_docs,
                   sub_results, documents>>

\* The next sub-search of the policy
RunNextSubSearch ==
    /\ router_pc = "retrieve" /\ pending # <<>>
    /\ LET handed == RunSubSearch(Head(pending), router_data, RetrievalQuery)
       IN  /\ sub_results' = Append(sub_results, handed)
           /\ all_results' = all_results + Len(handed)
    /\ search_calls' = search_calls + 1
    /\ pending' = Tail(pending)
    /\ UNCHANGED <<chunkerVars, clock, storeVars, threadVars, batchVars,
                   systemVars, entities, query_type, router_pc, route_raised,
                   relevant_docs, documents>>

\* The policy returns its list
ReturnRetrieved ==
    /\ router_pc = "retrieve" /\ pending = <<>>
    /\ documents' = MergeResults(query_type, sub_results)
    /\ relevant_docs' = Len(documents')
    /\ router_pc' = "done"
    /\ UNCHANGED <<chunkerVars, clock, storeVars, threadVars, batchVars,
                   systemVars, entities, query_type, pending, all_results,
                   search_calls, route_raised, sub_results>>

NextRetrieval ==
    \/ RouteRetrieval
    \/ RetrieveSingleCompany
    \/ RunNextSubSearch
    \/ ReturnRetrieved

SpecRetrieval == InitRetrieval /\ [][NextRetrieval]_vars

(***************************************************************************)
(* Properties of the retrieval policies                                    *)
(***************************************************************************)
\* The ids of the results of a list
ResultIds(rs) == {rs[i].chunk_id : i \in 1 .. Len(rs)}

\* The records of the router's VectorDB a sub-search for ticker t can
\* match: those of the ticker, and of the filing type when the query names
\* one
RecordsOfTicker(t) ==
    {i \in 1 .. Len(router_data) :
        /\ "ticker" \in DOMAIN router_data[i].metadata
        /\ router_data[i].metadata.ticker = t
        /\ entities.filing_types # <<>>
               => router_data[i].metadata.filing_type
                      = entities.filing_types[1]}

MultiCompanyDone ==
    /\ router_pc = "done" /\ ~route_raised
    /\ query_type = "multi_company"

\* C21: a multi-company retrieval that has returned made one sub-search
\* per extracted ticker; each handed back only records of its ticker, as
\* many as the per-ticker budget max(5, 20 // n) allows; what is returned
\* are the at most 20 best of the merged list, in non-increasing
\* similarity order.
C21_MultiCompanyFanOut ==
    MultiCompanyDone =>
        LET tickers == entities.tickers
            budget == IF 20 \div Len(tickers) > 5
                      THEN 20 \div Len(tickers) ELSE 5
            merged == UNION {ResultIds(sub_results[i]) :
                                i \in 1 .. Len(sub_results)}
        IN  /\ search_calls = Len(tickers)
            /\ Len(sub_results) = Len(tickers)
            /\ \A i \in 1 .. Len(tickers) :
                   /\ \A r \in 1 .. Len(sub_results[i]) :
                          sub_results[i][r].metadata.ticker = tickers[i]
                   /\ Len(sub_results[i])
                          = (IF Cardinality(RecordsOfTicker(tickers[i]))
                                    < budget
                             THEN Cardinality(RecordsOfTicker(tickers[i]))
                             ELSE budget)
            /\ Len(documents) = (IF all_results < 20 THEN all_results ELSE 20)
            /\ ResultIds(documents) \subseteq merged
            /\ Cardinality(ResultIds(documents)) = Len(documents)
            /\ \A r \in 1 .. Len(documents) - 1 :
                   documents[r].similarity >= documents[r + 1].similarity
            /\ \A i \in 1 .. Len(sub_results) :
                   \A r \in 1 .. Len(sub_results[i]) :
                       \/ sub_results[i][r].chunk_id \in ResultIds(documents)
                       \/ sub_results[i][r].similarity
                              <= documents[Len(documents)].similarity

\* A comparison of five companies: each sub-search is cut to its budget of
\* 5, the 25 merged results are cut to 20, and the best of the second
\* company is returned ahead of the third best of the first.
C21_Witness ==
    /\ MultiCompanyDone
    /\ Len(entities.tickers) = 5
    /\ \A i \in 1 .. 5 :
           /\ Len(sub_results[i]) = 5
           /\ Cardinality(RecordsOfTicker(entities.tickers[i])) > 5
    /\ all_results = 25 /\ Len(documents) = 20
    /\ documents[3].metadata.ticker = entities.tickers[2]
    /\ documents[3].similarity > sub_results[1][3].similarity
    /\ documents # SubSeq(Concatenate(sub_results), 1, 20)

\* A temporal retrieval for one ticker and explicit years that has returned
TemporalYearsDone ==
    /\ router_pc = "done" /\ ~route_raised
    /\ query_type = "temporal_analysis"
    /\ Len(entities.tickers) = 1
    /\ entities.time_periods.years # <<>>

\* Whether a result carries a filing date
HasFilingDate(r) == "filing_date" \in DOMAIN r.metadata

\* Whether the filing date of a result starts with the year
FiledInYear(r, year) ==
    /\ HasFilingDate(r)
    /\ StartsWith(FilingDateChars(r.metadata.filing_date), YearChars(year))

\* The results a list holds, as a set
ResultsOf(rs) == {rs[i] : i \in 1 .. Len(rs)}

\* What VectorDB.search hands the sub-search of the i-th named year
FoundForYear(i) ==
    EngineSearch(search_temporal(entities.time_periods.years[i]),
                 router_data, RetrievalQuery)

\* C25, as stated: a temporal retrieval for one ticker and explicit years
\* makes one sub-search per year, returns the first 20 of the per-year
\* results concatenated in year-list order, and every returned result has a
\* filing date that starts with one of the named years.
C25_EveryResultFiledInNamedYear ==
    TemporalYearsDone =>
        LET years == entities.time_periods.years
        IN  /\ search_calls = Len(years)
            /\ Len(sub_results) = Len(years)
            /\ documents = SubSeq(Concatenate(sub_results), 1,
                                  Min(20, Len(Concatenate(sub_results))))
            /\ \A r \in ResultsOf(documents) :
                   \E i \in 1 .. Len(years) : FiledInYear(r, years[i])

\* C25, amended: one sub-search per year, the first 20 of the per-year
\* results concatenated in year-list order, and every returned result that
\* carries a filing date has one that starts with one of the named years;
\* the sub-search of a year hands back the results filed in that year and
\* the results that carry no filing date.
C25_DatedResultsFiledInNamedYear ==
    TemporalYearsDone =>
        LET years == entities.time_periods.years
        IN  /\ search_calls = Len(years)
            /\ Len(sub_results) = Len(years)
            /\ documents = SubSeq(Concatenate(sub_results), 1,
                                  Min(20, Len(Concatenate(sub_results))))
            /\ \A i \in 1 .. Len(years) :
                   /\ \A r \in ResultsOf(sub_results[i]) :
                          HasFilingDate(r) => FiledInYear(r, years[i])
                   /\ \A r \in ResultsOf(FoundForYear(i)) :
                          (~HasFilingDate(r) \/ FiledInYear(r, years[i]))
                              => r \in ResultsOf(sub_results[i])
            /\ \A r \in ResultsOf(documents) :
                   HasFilingDate(r)
                       => \E i \in 1 .. Len(years) : FiledInYear(r, years[i])

\* A query naming one ticker and two years: the two per-year lists hold
\* more than 20 results together and are cut to 20, results filed in either
\* year are returned, a result of the first year was dropped by the second
\* year's sub-search, and a result without a filing date is returned.
C25_Witness ==
    /\ TemporalYearsDone
    /\ Len(entities.time_periods.years) = 2
    /\ Len(Concatenate(sub_results)) > 20 /\ Len(documents) = 20
    /\ \E r \in ResultsOf(documents) : FiledInYear(r, 2022)
    /\ \E r \in ResultsOf(documents) : FiledInYear(r, 2023)
    /\ \E r \in ResultsOf(FoundForYear(2)) :
           FiledInYear(r, 2022) /\ r \notin ResultsOf(sub_results[2])
    /\ \E r \in ResultsOf(documents) : ~HasFilingDate(r)

\* A temporal retrieval for a query naming exactly one ticker that has
\* returned
TemporalOneTickerDone ==
    /\ router_pc = "done" /\ ~route_raised
    /\ query_type = "temporal_analysis"
    /\ Len(entities.tickers) = 1

\* C29: every result returned for a temporal query that names exactly one
\* ticker has that ticker in its metadata, with explicit years and with
\* relative time terms only.
C29_TemporalResultsOfNamedTicker ==
    TemporalOneTickerDone =>
        \A r \in ResultsOf(documents) :
            /\ "ticker" \in DOMAIN r.metadata
            /\ r.metadata.ticker = entities.tickers[1]

\* C29 for the queries with relative time terms only: the one sub-search
\* is filtered by the ticker.
C29_RelativeTermsOnly ==
    (TemporalOneTickerDone /\ entities.time_periods.years = <<>>) =>
        \A r \in ResultsOf(documents) :
            /\ "ticker" \in DOMAIN r.metadata
            /\ r.metadata.ticker = entities.tickers[1]

\* A single-company retrieval with a named year that has returned
SingleCompanyYearDone ==
    /\ router_pc = "done" /\ ~route_raised
    /\ query_type = "single_company"
    /\ entities.time_periods.years # <<>>

\* What VectorDB.search hands the sub-search of the single-company policy
FoundForCompany ==
    EngineSearch(
        _retrieve_single_company(entities.tickers[1], entities.filing_types,
                                 entities.time_periods).calls[1],
        router_data, RetrievalQuery)

\* Whether the filing date of a result lies in the calendar year
FiledInCalendarYear(r, year) ==
    /\ HasFilingDate(r)
    /\ DateParts[r.metadata.filing_date][1] = year

C30_DateRangeKeepsNothing ==
    SingleCompanyYearDone => documents = <<>>
====
